---- MODULE Spec2Model ----
(***************************************************************************)
(* The flat storage engine of memcached (flat_storage.c): a two-class      *)
(* chunk allocator (large chunks that can be broken into small chunks),    *)
(* the item LRU and the item life cycle.                                   *)
(*                                                                         *)
(* Addresses.  A small chunk has address 1 .. NLarge * S; the large chunk  *)
(* with index L starts at the address of its first small chunk, LAddr(L).  *)
(* 0 is NULL / NULL_CHUNKPTR.  A pointer to a large_chunk_t is the index L.*)
(*                                                                         *)
(* Memory that holds no item (a free or coalesce-pending chunk, the stale  *)
(* bytes of a vacated slot) is kept at a fixed blank value: the code never *)
(* reads it before writing it.  Chunk flags are kept exactly as the code   *)
(* leaves them.                                                            *)
(*                                                                         *)
(* The operators take and return the whole program state as one record s   *)
(* (C functions calling each other on the global fsi); the actions at the  *)
(* end apply one public operation to the variables.                        *)
(***************************************************************************)
EXTENDS Integers, Sequences, FiniteSets, TLC

(* ------------------------------ bounds --------------------------------- *)
\* settings.maxbytes / FLAT_STORAGE_INCREMENT_DELTA
Increments == 2
\* number of distinct keys the callers use
NumKeys == 2
\* the clock stops here
MaxTime == 1
\* the callers hold at most this many references at the same time
MaxRefs == 2
\* caps of the monotonic counters break_events, migrates, evictions
MaxBreaks == 2
MaxMigrates == 1
MaxEvictions == 1
\* number of distinct keys in the runs that fill the LRU beyond
\* LRU_SEARCH_DEPTH
WindowKeys == 3

(* ----------------------- compile-time constants ------------------------ *)
(* flat_storage.h is not part of the sources at hand; the values are       *)
(* scaled down and respect the relations item_init() asserts.              *)
SMALL_CHUNKS_PER_LARGE_CHUNK == 3
SMALL_CHUNK_SZ == 4
LARGE_CHUNK_SZ == 12
FLAT_STORAGE_INCREMENT_DELTA == 12
SMALL_TITLE_CHUNK_DATA_SZ == 2
SMALL_BODY_CHUNK_DATA_SZ == 3
LARGE_TITLE_CHUNK_DATA_SZ == 8
LARGE_BODY_CHUNK_DATA_SZ == 9
KEY_MAX_LENGTH == 2
MAX_ITEM_SIZE == 12
LRU_SEARCH_DEPTH == 2
ITEM_UPDATE_INTERVAL == 1
\* sizeof(rel_time_t), sizeof(struct in_addr), scaled
SIZEOF_REL_TIME == 1
SIZEOF_IN_ADDR == 1
\* rel_time_t is an unsigned machine integer.  Its width (32 bits) is beyond
\* the integers of the model checker; every modulus above
\* MaxTime + ITEM_UPDATE_INTERVAL gives the same comparisons.
REL_TIME_MOD == 65536
\* the largest int.  An int of 8 bits stands for the int of 32 bits, which
\* is beyond the integers of the model checker; size_t is wider than int.
INT_MAX == 127

S == SMALL_CHUNKS_PER_LARGE_CHUNK
maxbytes == Increments * FLAT_STORAGE_INCREMENT_DELTA
NLarge == maxbytes \div LARGE_CHUNK_SZ
LargeIdx == 1 .. NLarge
Addrs == 1 .. (NLarge * S)
NULL == 0

LAddr(L) == (L - 1) * S + 1
get_parent_chunk(a) == ((a - 1) \div S) + 1
Child(L, i) == (L - 1) * S + 1 + i

Min(a, b) == IF a < b THEN a ELSE b

(* ------------------------------ blank memory --------------------------- *)
BlankHdr ==
  [h_next |-> NULL, next |-> NULL, prev |-> NULL, next_chunk |-> NULL,
   time |-> 0, exptime |-> 0, nbytes |-> 0, nkey |-> 0, refcount |-> 0,
   it_flags |-> {}, key |-> <<>>]
BlankBody == [next_chunk |-> NULL, prev_chunk |-> NULL]
BlankSmall == [flags |-> {}, next |-> NULL, prev_next |-> NULL]
BlankLarge == [flags |-> {}, next |-> NULL, small_chunks_allocated |-> 0]

(* ------------------------------ assertions ----------------------------- *)
\* assert(cond): a failed assertion is recorded; the run goes on as the
\* NDEBUG build does.
Chk(s, cond, label) == IF cond THEN s ELSE [s EXCEPT !.fail = @ \cup {label}]
\* an observation of the running operation, for the properties
Ev(s, e) == [s EXCEPT !.evs = @ \cup {e}]

HistAdd(s, k, d) ==
  [s EXCEPT !.fsi.stats.broken_chunk_histogram[k] = @ + d]

(* ------------------------------ free lists ----------------------------- *)
\* *prev_next = v, where prev_next is &fsi.small_free_list (0) or
\* &chunk->sc.sc_free.next (the chunk's address)
WriteSlot(s, slot, v) ==
  IF slot = NULL THEN [s EXCEPT !.fsi.small_free_list = v]
  ELSE [s EXCEPT !.small[slot].next = v]

free_list_push_large(s, L) ==
  [Chk(s, s.large[L].flags = {"INITIALIZED"}, "push_large_flags")
     EXCEPT !.large[L].next = s.fsi.large_free_list,
            !.large[L].flags = {"INITIALIZED", "FREE"},
            !.fsi.large_free_list = L,
            !.fsi.large_free_list_sz = @ + 1]

\* the splice without the decrement of small_free_list_sz
free_list_splice_keeps_size(s, a) ==
  LET pn == s.small[a].prev_next
      nx == s.small[a].next
      Back(t) == IF nx # NULL THEN [t EXCEPT !.small[nx].prev_next = pn]
                 ELSE t
  IN [Back(WriteSlot(s, pn, nx))
        EXCEPT !.small[a].next = NULL, !.small[a].prev_next = NULL]

\* splice a small chunk out of the small free list by its prev_next
\* (unbreak_large_chunk and coalesce_free_small_chunks do the same)
free_list_splice(s, a) ==
  LET pn == s.small[a].prev_next
      nx == s.small[a].next
      Back(t) == IF nx # NULL THEN [t EXCEPT !.small[nx].prev_next = pn]
                 ELSE t
  IN [Back(WriteSlot(Chk(s, (IF pn = NULL THEN s.fsi.small_free_list
                             ELSE s.small[pn].next) = a,
                         "splice_prev_next"),
                     pn, nx))
        EXCEPT !.small[a].next = NULL, !.small[a].prev_next = NULL,
               !.fsi.small_free_list_sz = @ - 1]

RECURSIVE unbreak_children(_, _, _)
unbreak_children(s, L, i) ==
  IF i >= S THEN s
  ELSE LET a == Child(L, i)
           f == s.small[a].flags
           Take(t) ==
             IF "FREE" \in f
             THEN [free_list_splice(t, a) EXCEPT !.small[a].flags = {}]
             ELSE t
       IN unbreak_children(
            Take(Chk(s, f = {"INITIALIZED", "FREE"}
                        \/ f = {"INITIALIZED", "COALESCE_PENDING"},
                     "unbreak_child_flags")),
            L, i + 1)

\* unbreak_large_chunk without the count of the event
unbreak_large_chunk_uncounted(s, L, mandatory) ==
  LET Rejoin(t) ==
        free_list_push_large([t EXCEPT !.large[L].flags = {"INITIALIZED"}], L)
      Count(t) ==
        HistAdd([t EXCEPT !.fsi.stats.large_broken_chunks = @ - 1], 0, -1)
  IN IF ~mandatory /\ s.large[L].small_chunks_allocated # 0 THEN s
     ELSE Count(Rejoin(unbreak_children(s, L, 0)))

unbreak_large_chunk(s, L, mandatory) ==
  LET Checked(t) ==
        Chk(t, t.large[L].flags = {"INITIALIZED", "USED", "BROKEN"},
            "unbreak_flags")
      Rejoin(t) ==
        free_list_push_large([t EXCEPT !.large[L].flags = {"INITIALIZED"}], L)
      Count(t) ==
        HistAdd([t EXCEPT !.fsi.stats.large_broken_chunks = @ - 1,
                          !.fsi.stats.unbreak_events = @ + 1], 0, -1)
      \* an observation: the small chunks before, and the chunks and the
      \* free lists after
      Observed(t) ==
        Ev(t, <<"unbroken", L, mandatory, s.small, t.small, t.large, t.fsi>>)
  IN IF ~mandatory /\ s.large[L].small_chunks_allocated # 0 THEN Checked(s)
     ELSE Ev(Observed(Count(Rejoin(unbreak_children(
               Chk(Checked(s), s.large[L].small_chunks_allocated = 0,
                   "unbreak_allocated"),
               L, 0)))),
             <<"unbreak", L>>)

\* free_list_push(SMALL_CHUNK) that never tries to merge
free_list_push_small_never_merges(s, a, try_merge) ==
  LET pc == get_parent_chunk(a)
      n == s.large[pc].small_chunks_allocated
      old_head == s.fsi.small_free_list
      Account(t) ==
        [HistAdd(HistAdd(t, n, -1), n - 1, 1)
           EXCEPT !.large[pc].small_chunks_allocated = n - 1]
      Chain(t) ==
        IF old_head # NULL
        THEN [t EXCEPT !.small[old_head].prev_next = a,
                       !.small[a].next = old_head]
        ELSE [t EXCEPT !.small[a].next = NULL]
      Top(t) ==
        [t EXCEPT !.small[a].prev_next = NULL,
                  !.small[a].flags = {"INITIALIZED", "FREE"},
                  !.fsi.small_free_list = a,
                  !.fsi.small_free_list_sz = @ + 1]
  IN Top(Chain(Account(s)))

free_list_push_small(s, a, try_merge) ==
  LET pc == get_parent_chunk(a)
      n == s.large[pc].small_chunks_allocated
      old_head == s.fsi.small_free_list
      Account(t) ==
        [HistAdd(HistAdd(t, n, -1), n - 1, 1)
           EXCEPT !.large[pc].small_chunks_allocated = n - 1]
      Chain(t) ==
        IF old_head # NULL
        THEN [t EXCEPT !.small[old_head].prev_next = a,
                       !.small[a].next = old_head]
        ELSE [t EXCEPT !.small[a].next = NULL]
      Top(t) ==
        [t EXCEPT !.small[a].prev_next = NULL,
                  !.small[a].flags = {"INITIALIZED", "FREE"},
                  !.fsi.small_free_list = a,
                  !.fsi.small_free_list_sz = @ + 1]
      Merge(t) == IF try_merge THEN unbreak_large_chunk(t, pc, FALSE) ELSE t
  IN Merge(Top(Chain(Account(
       Chk(Chk(s, s.small[a].flags = {"INITIALIZED"}, "push_small_flags"),
           n > 0, "push_small_allocated")))))

\* free_list_pop(LARGE_CHUNK) that leaves the FREE flag on the chunk
free_list_pop_large_keeps_free(s) ==
  IF s.fsi.large_free_list_sz = 0 THEN [st |-> s, ret |-> NULL]
  ELSE [st |-> [s EXCEPT
                  !.fsi.large_free_list = s.large[s.fsi.large_free_list].next,
                  !.fsi.large_free_list_sz = @ - 1,
                  !.large[s.fsi.large_free_list].next = NULL],
        ret |-> s.fsi.large_free_list]

\* free_list_pop(LARGE_CHUNK): [st, ret], ret the index of the chunk or NULL
free_list_pop_large(s) ==
  IF s.fsi.large_free_list_sz = 0 THEN [st |-> s, ret |-> NULL]
  ELSE LET L == s.fsi.large_free_list
       IN [st |-> [Chk(s, s.large[L].flags = {"INITIALIZED", "FREE"},
                       "pop_large_flags")
                     EXCEPT !.fsi.large_free_list = s.large[L].next,
                            !.fsi.large_free_list_sz = @ - 1,
                            !.large[L].next = NULL,
                            !.large[L].flags = @ \ {"FREE"}],
           ret |-> L]

\* free_list_pop(SMALL_CHUNK) without the count of the chunk in its parent
free_list_pop_small_uncounted(s) ==
  IF s.fsi.small_free_list_sz = 0 THEN [st |-> s, ret |-> NULL]
  ELSE LET a == s.fsi.small_free_list
           nx == s.small[a].next
           Back(t) == IF nx # NULL THEN [t EXCEPT !.small[nx].prev_next = NULL]
                      ELSE t
       IN [st |-> [Back(s) EXCEPT !.fsi.small_free_list = nx,
                                  !.fsi.small_free_list_sz = @ - 1,
                                  !.small[a].next = NULL,
                                  !.small[a].prev_next = NULL,
                                  !.small[a].flags = @ \ {"FREE"}],
           ret |-> a]

\* free_list_pop(SMALL_CHUNK) that leaves the FREE flag on the chunk
free_list_pop_small_keeps_free(s) ==
  IF s.fsi.small_free_list_sz = 0 THEN [st |-> s, ret |-> NULL]
  ELSE LET a == s.fsi.small_free_list
           pc == get_parent_chunk(a)
           n == s.large[pc].small_chunks_allocated
           nx == s.small[a].next
           Back(t) == IF nx # NULL THEN [t EXCEPT !.small[nx].prev_next = NULL]
                      ELSE t
       IN [st |-> [HistAdd(HistAdd(Back(s), n, -1), n + 1, 1)
                     EXCEPT !.large[pc].small_chunks_allocated = n + 1,
                            !.fsi.small_free_list = nx,
                            !.fsi.small_free_list_sz = @ - 1,
                            !.small[a].next = NULL,
                            !.small[a].prev_next = NULL],
           ret |-> a]

\* free_list_pop(SMALL_CHUNK): [st, ret], ret the address of the chunk or NULL
free_list_pop_small(s) ==
  IF s.fsi.small_free_list_sz = 0 THEN [st |-> s, ret |-> NULL]
  ELSE LET a == s.fsi.small_free_list
           pc == get_parent_chunk(a)
           n == s.large[pc].small_chunks_allocated
           nx == s.small[a].next
           Account(t) ==
             Chk([HistAdd(HistAdd(t, n, -1), n + 1, 1)
                    EXCEPT !.large[pc].small_chunks_allocated = n + 1],
                 n + 1 <= S, "pop_small_allocated")
           Back(t) == IF nx # NULL THEN [t EXCEPT !.small[nx].prev_next = NULL]
                      ELSE t
           Unhook(t) ==
             [t EXCEPT !.fsi.small_free_list = nx,
                       !.fsi.small_free_list_sz = @ - 1,
                       !.small[a].next = NULL,
                       !.small[a].prev_next = NULL]
           Clear(t) ==
             [Chk(t, t.small[a].flags = {"INITIALIZED", "FREE"},
                  "pop_small_flags")
                EXCEPT !.small[a].flags = @ \ {"FREE"}]
       IN [st |-> Clear(Unhook(Back(Account(s)))), ret |-> a]

(* ------------------------------ break ---------------------------------- *)
RECURSIVE break_children(_, _, _)
break_children(s, L, i) ==
  IF i < 0 THEN s
  ELSE break_children(
         free_list_push_small(
           [s EXCEPT !.small[Child(L, i)].flags = {"INITIALIZED"}],
           Child(L, i), FALSE),
         L, i - 1)

\* break_large_chunk without the histogram entry of the new broken chunk
break_large_chunk_uncounted(s, L) ==
  LET Mark(t) ==
        [t EXCEPT !.large[L].flags = @ \cup {"USED", "BROKEN"},
                  !.large[L].small_chunks_allocated = S]
      Count(t) ==
        [t EXCEPT !.large[L].small_chunks_allocated = 0,
                  !.fsi.stats.large_broken_chunks = @ + 1,
                  !.fsi.stats.break_events = @ + 1]
  IN Count(break_children(Mark(s), L, S - 1))

\* break_large_chunk that leaves break_events and large_broken_chunks alone
break_large_chunk_unrecorded(s, L) ==
  LET Mark(t) ==
        HistAdd([t EXCEPT !.large[L].flags = @ \cup {"USED", "BROKEN"},
                          !.large[L].small_chunks_allocated = S], S, 1)
      Count(t) == [t EXCEPT !.large[L].small_chunks_allocated = 0]
  IN Ev(Count(break_children(Mark(s), L, S - 1)), <<"break", L>>)

break_large_chunk(s, L) ==
  LET Mark(t) ==
        HistAdd([t EXCEPT !.large[L].flags = @ \cup {"USED", "BROKEN"},
                          !.large[L].small_chunks_allocated = S], S, 1)
      Count(t) ==
        [t EXCEPT !.large[L].small_chunks_allocated = 0,
                  !.fsi.stats.large_broken_chunks = @ + 1,
                  !.fsi.stats.break_events = @ + 1]
  IN Ev(Count(break_children(
          Mark(Chk(s, s.large[L].flags = {"INITIALIZED"}, "break_flags")),
          L, S - 1)),
        <<"break", L>>)

(* ------------------------------ region --------------------------------- *)
RECURSIVE flat_storage_alloc_loop_unaccounted(_, _)
\* the loop of flat_storage_alloc without the decrement of unused_memory
flat_storage_alloc_loop_unaccounted(s, initialize_end) ==
  IF ~(s.fsi.uninitialized_start < initialize_end) THEN s
  ELSE LET L == s.fsi.uninitialized_start
       IN flat_storage_alloc_loop_unaccounted(
            free_list_push_large(
              [s EXCEPT !.fsi.uninitialized_start = @ + 1,
                        !.large[L].flags = {"INITIALIZED"}], L),
            initialize_end)

RECURSIVE flat_storage_alloc_loop(_, _)
flat_storage_alloc_loop(s, initialize_end) ==
  IF ~(s.fsi.uninitialized_start < initialize_end) THEN s
  ELSE LET L == s.fsi.uninitialized_start
       IN flat_storage_alloc_loop(
            [free_list_push_large(
               [s EXCEPT !.fsi.uninitialized_start = @ + 1,
                         !.large[L].flags = {"INITIALIZED"}], L)
               EXCEPT !.fsi.unused_memory = @ - LARGE_CHUNK_SZ],
            initialize_end)

\* [st, ret]
flat_storage_alloc(s) ==
  IF FLAT_STORAGE_INCREMENT_DELTA > s.fsi.unused_memory
  THEN [st |-> s, ret |-> FALSE]
  ELSE [st |-> Ev(flat_storage_alloc_loop(s,
                    s.fsi.uninitialized_start
                      + (FLAT_STORAGE_INCREMENT_DELTA \div LARGE_CHUNK_SZ)),
                  <<"grow">>),
        ret |-> TRUE]

(* ------------------------------ assoc table ---------------------------- *)
(* assoc.c is not part of the sources at hand.  The table is one hash      *)
(* chain (every key in the same bucket) threaded through h_next, with      *)
(* s.assoc its head: insert at the head, find and delete take the first    *)
(* item whose key matches, update rewrites the pointer to the item in      *)
(* place.                                                                  *)
RECURSIVE assoc_walk(_, _, _, _)
\* the first item from `it` on whose key is `key`, with the slot that points
\* to it (0: the bucket head); fuel bounds the walk by the number of chunks
assoc_walk(s, key, slot, fuel) ==
  LET it == IF slot = NULL THEN s.assoc ELSE s.title[slot].h_next
  IN IF it = NULL \/ fuel = 0 THEN [it |-> NULL, slot |-> slot]
     ELSE IF s.title[it].key = key THEN [it |-> it, slot |-> slot]
     ELSE assoc_walk(s, key, it, fuel - 1)

assoc_find(s, key) == assoc_walk(s, key, NULL, NLarge * S).it

assoc_insert(s, it) ==
  [s EXCEPT !.title[it].h_next = s.assoc, !.assoc = it]

assoc_delete(s, key) ==
  LET Remove(w) ==
        IF w.it = NULL THEN s
        ELSE IF w.slot = NULL
        THEN [s EXCEPT !.assoc = s.title[w.it].h_next,
                       !.title[w.it].h_next = NULL]
        ELSE [s EXCEPT !.title[w.slot].h_next = s.title[w.it].h_next,
                       !.title[w.it].h_next = NULL]
  IN Remove(assoc_walk(s, key, NULL, NLarge * S))

RECURSIVE assoc_slot_of(_, _, _, _)
assoc_slot_of(s, old, slot, fuel) ==
  LET it == IF slot = NULL THEN s.assoc ELSE s.title[slot].h_next
  IN IF it = NULL \/ fuel = 0 THEN -1
     ELSE IF it = old THEN slot
     ELSE assoc_slot_of(s, old, it, fuel - 1)

assoc_update(s, old, new) ==
  LET Rewrite(slot) ==
        IF slot = -1 THEN s
        ELSE IF slot = NULL THEN [s EXCEPT !.assoc = new]
        ELSE [s EXCEPT !.title[slot].h_next = new]
  IN Rewrite(assoc_slot_of(s, old, NULL, NLarge * S))

(* ------------------------------ item sizes ----------------------------- *)
is_large_chunk(nkey, nbytes) ==
  nkey + nbytes > SMALL_TITLE_CHUNK_DATA_SZ
                  + SMALL_BODY_CHUNK_DATA_SZ * (S - 2)

chunks_needed(nkey, nbytes) ==
  LET total == nkey + nbytes
  IN IF is_large_chunk(nkey, nbytes)
     THEN IF total <= LARGE_TITLE_CHUNK_DATA_SZ THEN 1
          ELSE 1 + ((total - LARGE_TITLE_CHUNK_DATA_SZ
                     + LARGE_BODY_CHUNK_DATA_SZ - 1)
                    \div LARGE_BODY_CHUNK_DATA_SZ)
     ELSE IF total <= SMALL_TITLE_CHUNK_DATA_SZ THEN 1
          ELSE 1 + ((total - SMALL_TITLE_CHUNK_DATA_SZ
                     + SMALL_BODY_CHUNK_DATA_SZ - 1)
                    \div SMALL_BODY_CHUNK_DATA_SZ)

\* the conversion of a size_t to int: the low bits, read as a signed number
ToInt(n) ==
  LET m == n % (2 * (INT_MAX + 1))
  IN IF m > INT_MAX THEN m - 2 * (INT_MAX + 1) ELSE m

\* item_size_ok(const size_t nkey, const int flags, const int nbytes):
\* do_item_alloc passes its size_t nbytes, which arrives as an int
item_size_ok(nkey, nbytes) ==
  (nkey <= KEY_MAX_LENGTH) /\ (ToInt(nbytes) <= MAX_ITEM_SIZE)

\* an item lives in small chunks iff its large chunk is broken
is_item_large_chunk(s, it) ==
  "BROKEN" \notin s.large[get_parent_chunk(it)].flags

chunks_in_item(s, it) ==
  chunks_needed(s.title[it].nkey, s.title[it].nbytes)

do_stamp_on_block(block_offset, block_sz) ==
  LET ts == block_sz - block_offset >= SIZEOF_REL_TIME
      off == IF ts THEN block_offset + SIZEOF_REL_TIME ELSE block_offset
      ip == block_sz - off >= SIZEOF_IN_ADDR
  IN (IF ts THEN {"HAS_TIMESTAMP"} ELSE {})
     \cup (IF ip THEN {"HAS_IP_ADDRESS"} ELSE {})

(* ------------------------------ LRU ------------------------------------ *)
\* get_lru_item without the refcount test: the tail is taken as it is
get_lru_scan_ignores_refcount(s, i, iter) ==
  IF ~(i < LRU_SEARCH_DEPTH /\ iter # NULL) THEN NULL ELSE iter

RECURSIVE get_lru_scan_from_head(_, _, _)
\* the scan of get_lru_item started at lru_head and following next
get_lru_scan_from_head(s, i, iter) ==
  LET at == IF i = 0 THEN s.fsi.lru_head ELSE iter
  IN IF ~(i < LRU_SEARCH_DEPTH /\ at # NULL) THEN NULL
     ELSE IF s.title[at].refcount = 0 THEN at
     ELSE get_lru_scan_from_head(s, i + 1, s.title[at].next)

RECURSIVE get_lru_scan(_, _, _)
get_lru_scan(s, i, iter) ==
  IF ~(i < LRU_SEARCH_DEPTH /\ iter # NULL) THEN NULL
  ELSE IF s.title[iter].refcount = 0 THEN iter
  ELSE get_lru_scan(s, i + 1, s.title[iter].prev)

\* get_lru_item that looks at the LRU tail only
get_lru_item_tail_only(s) ==
  IF s.fsi.lru_tail # NULL /\ s.title[s.fsi.lru_tail].refcount = 0
  THEN s.fsi.lru_tail
  ELSE NULL

RECURSIVE get_lru_scan_unbounded(_, _)
\* the scan of get_lru_item without the limit of LRU_SEARCH_DEPTH
get_lru_scan_unbounded(s, iter) ==
  IF iter = NULL THEN NULL
  ELSE IF s.title[iter].refcount = 0 THEN iter
  ELSE get_lru_scan_unbounded(s, s.title[iter].prev)

get_lru_item_unbounded(s) == get_lru_scan_unbounded(s, s.fsi.lru_tail)

get_lru_item(s) == get_lru_scan(s, 0, s.fsi.lru_tail)

\* item_link_q without the back pointer of the old head
item_link_q_no_back_pointer(s, it) ==
  LET head == s.fsi.lru_head
      Front(t) ==
        IF head # NULL THEN [t EXCEPT !.title[it].next = head] ELSE t
      Ends(t) ==
        IF s.fsi.lru_tail = NULL
        THEN [t EXCEPT !.fsi.lru_head = it, !.fsi.lru_tail = it]
        ELSE [t EXCEPT !.fsi.lru_head = it]
  IN Ends(Front(s))

item_link_q(s, it) ==
  LET head == s.fsi.lru_head
      Front(t) ==
        IF head # NULL
        THEN [t EXCEPT !.title[it].next = head, !.title[head].prev = it]
        ELSE t
      Ends(t) ==
        IF s.fsi.lru_tail = NULL
        THEN [t EXCEPT !.fsi.lru_head = it, !.fsi.lru_tail = it]
        ELSE [t EXCEPT !.fsi.lru_head = it]
  IN Ends(Front(Chk(Chk(s, s.title[it].next = NULL, "link_q_next"),
                    s.title[it].prev = NULL, "link_q_prev")))

item_unlink_q(s, it) ==
  LET next == s.title[it].next
      prev == s.title[it].prev
      FixHead(t) ==
        IF it = s.fsi.lru_head
        THEN [Chk(t, prev = NULL, "unlink_q_head")
                EXCEPT !.fsi.lru_head = next]
        ELSE t
      FixTail(t) ==
        IF it = s.fsi.lru_tail
        THEN [Chk(t, next = NULL, "unlink_q_tail")
                EXCEPT !.fsi.lru_tail = prev]
        ELSE t
      FixNext(t) == IF next # NULL THEN [t EXCEPT !.title[next].prev = prev]
                 ELSE t
      FixPrev(t) == IF prev # NULL THEN [t EXCEPT !.title[prev].next = next]
                 ELSE t
  IN [FixPrev(FixNext(FixTail(FixHead(s))))
        EXCEPT !.title[it].prev = NULL, !.title[it].next = NULL]

(* ------------------------------ item_free ------------------------------ *)
RECURSIVE free_large_bodies_uncounted(_, _, _)
\* the large body loop of item_free without chunks_freed ++
free_large_bodies_uncounted(s, next_chunk, n) ==
  IF next_chunk = NULL THEN [st |-> s, n |-> n]
  ELSE LET L == get_parent_chunk(next_chunk)
       IN free_large_bodies_uncounted(
            free_list_push_large(
              [s EXCEPT !.large[L].flags = @ \ {"USED"},
                        !.body[next_chunk] = BlankBody], L),
            s.body[next_chunk].next_chunk, n)

RECURSIVE free_large_bodies(_, _, _)
\* [st, n]: the state and the number of body chunks freed
free_large_bodies(s, next_chunk, n) ==
  IF next_chunk = NULL THEN [st |-> s, n |-> n]
  ELSE LET L == get_parent_chunk(next_chunk)
       IN free_large_bodies(
            free_list_push_large(
              [Chk(s, s.large[L].flags = {"INITIALIZED", "USED"},
                   "free_large_body_flags")
                 EXCEPT !.large[L].flags = @ \ {"USED"},
                        !.body[next_chunk] = BlankBody], L),
            s.body[next_chunk].next_chunk, n + 1)

RECURSIVE free_small_bodies(_, _, _)
free_small_bodies(s, next_chunk, n) ==
  IF next_chunk = NULL THEN [st |-> s, n |-> n]
  ELSE free_small_bodies(
         free_list_push_small(
           [Chk(s, s.small[next_chunk].flags = {"INITIALIZED", "USED"},
                "free_small_body_flags")
              EXCEPT !.small[next_chunk].flags = @ \ {"USED"},
                     !.body[next_chunk] = BlankBody], next_chunk, TRUE),
         s.body[next_chunk].next_chunk, n + 1)

\* item_free of a small item whose title chunk is pushed without try_merge
item_free_title_unmerged(s, it) ==
  LET h == s.title[it]
      Title(b) ==
        [free_list_push_small(
           [b.st EXCEPT !.small[it].flags = @ \ {"USED", "TITLE"},
                        !.title[it] = BlankHdr,
                        !.fsi.stats.small_body_chunks = @ - b.n], it, FALSE)
           EXCEPT !.fsi.stats.small_title_chunks = @ - 1]
  IN Title(free_small_bodies(Ev(s, <<"free", h.refcount>>), h.next_chunk, 0))

item_free(s, it) ==
  LET h == s.title[it]
      expected_chunks_freed == chunks_in_item(s, it)
      L == get_parent_chunk(it)
      Asserted(t) ==
        Chk(Chk(Chk(Chk(Chk(t,
          h.it_flags \ {"HAS_TIMESTAMP", "HAS_IP_ADDRESS"} = {"VALID"},
          "free_it_flags"),
          h.refcount = 0, "free_refcount"),
          h.next = NULL, "free_next"),
          h.prev = NULL, "free_prev"),
          h.h_next = NULL, "free_h_next")
      LargeTitle(b) ==
        Chk([free_list_push_large(
               [Chk(b.st, b.st.large[L].flags
                          = {"INITIALIZED", "USED", "TITLE"},
                    "free_large_title_flags")
                  EXCEPT !.large[L].flags = @ \ {"USED", "TITLE"},
                         !.title[it] = BlankHdr,
                         !.fsi.stats.large_body_chunks = @ - b.n], L)
               EXCEPT !.fsi.stats.large_title_chunks = @ - 1],
            b.n + 1 = expected_chunks_freed, "free_chunks_freed")
      SmallTitle(b) ==
        Chk([free_list_push_small(
               [Chk(b.st, b.st.small[it].flags
                          = {"INITIALIZED", "USED", "TITLE"},
                    "free_small_title_flags")
                  EXCEPT !.small[it].flags = @ \ {"USED", "TITLE"},
                         !.title[it] = BlankHdr,
                         !.fsi.stats.small_body_chunks = @ - b.n], it, TRUE)
               EXCEPT !.fsi.stats.small_title_chunks = @ - 1],
            b.n + 1 = expected_chunks_freed, "free_chunks_freed")
  IN IF is_item_large_chunk(s, it)
     THEN LargeTitle(free_large_bodies(
            Ev(Asserted(s), <<"free", h.refcount>>), h.next_chunk, 0))
     ELSE SmallTitle(free_small_bodies(
            Ev(Asserted(s), <<"free", h.refcount>>), h.next_chunk, 0))

(* ------------------------------ link / unlink -------------------------- *)
\* do_item_link without the count of the item in curr_items
do_item_link_uncounted(s, it, key) ==
  item_link_q(
    [assoc_insert(
       [s EXCEPT !.title[it].it_flags = @ \cup {"LINKED"},
                 !.title[it].time = s.current_time], it)
       EXCEPT !.stats.item_total_size =
                 @ + s.title[it].nkey + s.title[it].nbytes], it)

do_item_link(s, it, key) ==
  item_link_q(
    [assoc_insert(
       [Chk(Chk(s, "VALID" \in s.title[it].it_flags, "link_valid"),
            "LINKED" \notin s.title[it].it_flags, "link_linked")
          EXCEPT !.title[it].it_flags = @ \cup {"LINKED"},
                 !.title[it].time = s.current_time], it)
       EXCEPT !.stats.item_total_size =
                 @ + s.title[it].nkey + s.title[it].nbytes,
              !.stats.curr_items = @ + 1], it)

\* flags: "NORMAL", "MAYBE_EVICT", "IS_EVICT" or "IS_EXPIRED";
\* key = <<>> stands for key == NULL
\* do_item_unlink without the test of ITEM_LINKED
do_item_unlink_untested(s, it, flags, key) ==
  LET h == s.title[it]
      k == IF key = <<>> THEN h.key ELSE key
      Account(t) ==
        [t EXCEPT !.title[it].it_flags = @ \ {"LINKED"},
                  !.stats.item_total_size = @ - (h.nkey + h.nbytes),
                  !.stats.curr_items = @ - 1]
      Count(t) ==
        IF flags = "IS_EVICT" THEN [t EXCEPT !.stats.evictions = @ + 1]
        ELSE t
      Unhash(t) == [assoc_delete(t, k) EXCEPT !.title[it].h_next = NULL]
      Release(t) == IF t.title[it].refcount = 0 THEN item_free(t, it) ELSE t
  IN Release(item_unlink_q(Unhash(Count(Account(s))), it))

\* do_item_unlink that takes MAYBE_EVICT for IS_EVICT without a look at
\* the expiry time
do_item_unlink_maybe_is_evict(s, it, flags, key) ==
  LET h == s.title[it]
      k == IF key = <<>> THEN h.key ELSE key
      Account(t) ==
        [t EXCEPT !.title[it].it_flags = @ \ {"LINKED"},
                  !.stats.item_total_size = @ - (h.nkey + h.nbytes),
                  !.stats.curr_items = @ - 1]
      Count(t) ==
        IF flags \in {"IS_EVICT", "MAYBE_EVICT"}
        THEN Ev([t EXCEPT !.stats.evictions = @ + 1], <<"evict">>)
        ELSE IF flags = "IS_EXPIRED" THEN Ev(t, <<"expire">>)
        ELSE t
      Unhash(t) == [assoc_delete(t, k) EXCEPT !.title[it].h_next = NULL]
      Release(t) == IF t.title[it].refcount = 0 THEN item_free(t, it) ELSE t
  IN IF "LINKED" \notin h.it_flags THEN s
     ELSE Release(item_unlink_q(Unhash(Count(Account(s))), it))

\* do_item_unlink that unlinks the item the assoc table holds under the
\* key, whatever item the caller passed
do_item_unlink_by_key(s, it, flags, key) ==
  LET k == IF key = <<>> THEN s.title[it].key ELSE key
      at == assoc_find(s, k)
      h == s.title[at]
      Account(t) ==
        [t EXCEPT !.title[at].it_flags = @ \ {"LINKED"},
                  !.stats.item_total_size = @ - (h.nkey + h.nbytes),
                  !.stats.curr_items = @ - 1]
      Count(t) ==
        IF flags \in {"IS_EVICT", "MAYBE_EVICT"}
        THEN Ev([t EXCEPT !.stats.evictions = @ + 1], <<"evict">>)
        ELSE IF flags = "IS_EXPIRED" THEN Ev(t, <<"expire">>)
        ELSE t
      Unhash(t) == [assoc_delete(t, k) EXCEPT !.title[at].h_next = NULL]
      Release(t) == IF t.title[at].refcount = 0 THEN item_free(t, at) ELSE t
  IN IF at = NULL THEN s
     ELSE Release(item_unlink_q(Unhash(Count(Account(s))), at))

do_item_unlink(s, it, flags, key) ==
  LET h == s.title[it]
      k == IF key = <<>> THEN h.key ELSE key
      fl == IF flags = "MAYBE_EVICT"
            THEN IF h.exptime = 0 \/ h.exptime > s.current_time
                 THEN "IS_EVICT" ELSE "IS_EXPIRED"
            ELSE flags
      Account(t) ==
        [t EXCEPT !.title[it].it_flags = @ \ {"LINKED"},
                  !.stats.item_total_size = @ - (h.nkey + h.nbytes),
                  !.stats.curr_items = @ - 1]
      Count(t) ==
        IF fl = "IS_EVICT"
        THEN Ev([t EXCEPT !.stats.evictions = @ + 1], <<"evict">>)
        ELSE IF fl = "IS_EXPIRED" THEN Ev(t, <<"expire">>)
        ELSE t
      Unhash(t) == [assoc_delete(t, k) EXCEPT !.title[it].h_next = NULL]
      Release(t) == IF t.title[it].refcount = 0 THEN item_free(t, it) ELSE t
  IN IF "LINKED" \notin h.it_flags
     THEN Chk(s, "VALID" \in h.it_flags, "unlink_valid")
     ELSE Release(item_unlink_q(Unhash(Count(Account(
            Chk(s, "VALID" \in h.it_flags, "unlink_valid")))), it))

(* ------------------------------ coalesce ------------------------------- *)
RECURSIVE small_chunk_title(_, _, _)
\* the walk of small_chunk_referenced from a used chunk back to its title
small_chunk_title(s, sc, fuel) ==
  IF sc = NULL \/ fuel = 0 \/ "TITLE" \in s.small[sc].flags THEN sc
  ELSE small_chunk_title(s, s.body[sc].prev_chunk, fuel - 1)

\* small_chunk_referenced that walks back to the title and does not look
\* at its refcount
small_chunk_referenced_ignores_refcount(s, sc) ==
  IF "FREE" \in s.small[sc].flags THEN FALSE
  ELSE small_chunk_title(s, sc, NLarge * S) = NULL

small_chunk_referenced(s, sc) ==
  IF "FREE" \in s.small[sc].flags THEN FALSE
  ELSE LET t == small_chunk_title(s, sc, NLarge * S)
       IN IF t = NULL THEN TRUE ELSE s.title[t].refcount # 0

large_broken_chunk_referenced(s, L) ==
  \E counter \in 0 .. (S - 1) : small_chunk_referenced(s, Child(L, counter))

RECURSIVE find_unreferenced_scan(_, _, _, _)
find_unreferenced_scan(s, search_depth, counter, iter) ==
  IF ~(iter # NULL /\ (search_depth = 0 \/ counter < search_depth)) THEN NULL
  ELSE LET L == get_parent_chunk(iter)
       IN IF ~large_broken_chunk_referenced(s, L) THEN L
          ELSE find_unreferenced_scan(s, search_depth, counter + 1,
                                      s.small[iter].next)

\* find_unreferenced_broken_chunk that looks at the first chunk of the
\* small free list only
find_unreferenced_broken_chunk_head_only(s, search_depth) ==
  find_unreferenced_scan(s, 1, 0, s.fsi.small_free_list)

find_unreferenced_broken_chunk(s, search_depth) ==
  find_unreferenced_scan(s, search_depth, 0, s.fsi.small_free_list)

RECURSIVE coalesce_park_free_in_place(_, _, _)
\* the first loop over the donor that flags the free children and leaves
\* them on the free list
coalesce_park_free_in_place(s, L, i) ==
  IF i >= S THEN s
  ELSE LET a == Child(L, i)
           Park(t) ==
             IF "FREE" \in t.small[a].flags
             THEN [t EXCEPT !.small[a].flags =
                              (@ \ {"FREE"}) \cup {"COALESCE_PENDING"}]
             ELSE t
       IN coalesce_park_free_in_place(Park(s), L, i + 1)

RECURSIVE coalesce_park_free(_, _, _)
\* first loop over the donor: its free children leave the free list and
\* become COALESCE_PENDING
coalesce_park_free(s, L, i) ==
  IF i >= S THEN s
  ELSE LET a == Child(L, i)
           Park(t) ==
             IF "FREE" \in t.small[a].flags
             THEN [free_list_splice(t, a) EXCEPT
                     !.small[a].flags =
                        (@ \ {"FREE"}) \cup {"COALESCE_PENDING"}]
             ELSE t
       IN coalesce_park_free(Park(s), L, i + 1)

\* coalesce_move_title without the call of assoc_update
coalesce_move_title_keeps_hash(m, old, r) ==
  LET nx == m.title[r].next
      pv == m.title[r].prev
      nc == m.title[r].next_chunk
      FixNext(t) ==
        IF nx # NULL THEN [t EXCEPT !.title[nx].prev = r]
        ELSE [t EXCEPT !.fsi.lru_tail = r]
      FixPrev(t) ==
        IF pv # NULL THEN [t EXCEPT !.title[pv].next = r]
        ELSE [t EXCEPT !.fsi.lru_head = r]
      FixBody(t) ==
        IF nc # NULL THEN [t EXCEPT !.body[nc].prev_chunk = r] ELSE t
  IN [FixBody(FixPrev(FixNext(m)))
        EXCEPT !.small[r].flags = @ \cup {"USED", "TITLE"}]

\* the title chunk `old` has been copied to r: the LRU neighbours, the
\* first body chunk and the hash chain turn to r
coalesce_move_title(m, old, r) ==
  LET nx == m.title[r].next
      pv == m.title[r].prev
      nc == m.title[r].next_chunk
      FixNext(t) ==
        IF nx # NULL
        THEN [Chk(t, t.title[nx].prev = old, "coalesce_next_prev")
                EXCEPT !.title[nx].prev = r]
        ELSE [Chk(t, t.fsi.lru_tail = old, "coalesce_lru_tail")
                EXCEPT !.fsi.lru_tail = r]
      FixPrev(t) ==
        IF pv # NULL
        THEN [Chk(t, t.title[pv].next = old, "coalesce_prev_next")
                EXCEPT !.title[pv].next = r]
        ELSE [Chk(t, t.fsi.lru_head = old, "coalesce_lru_head")
                EXCEPT !.fsi.lru_head = r]
      FixBody(t) ==
        IF nc # NULL
        THEN [Chk(t, t.body[nc].prev_chunk = old, "coalesce_title_next_chunk")
                EXCEPT !.body[nc].prev_chunk = r]
        ELSE t
  IN assoc_update(
       [FixBody(FixPrev(FixNext(m)))
          EXCEPT !.small[r].flags = @ \cup {"USED", "TITLE"}],
       old, r)

\* the body chunk `old` has been copied to r: the chunks before and after
\* it turn to r
coalesce_move_body(m, old, r) ==
  LET pc == m.body[r].prev_chunk
      nc == m.body[r].next_chunk
      FixPrev(t) ==
        IF "TITLE" \in t.small[pc].flags
        THEN [t EXCEPT !.title[pc].next_chunk = r]
        ELSE [t EXCEPT !.body[pc].next_chunk = r]
      FixNext(t) ==
        IF nc # NULL
        THEN [Chk(t, t.body[nc].prev_chunk = old, "coalesce_body_next_chunk")
                EXCEPT !.body[nc].prev_chunk = r]
        ELSE t
  IN [FixNext(FixPrev(m)) EXCEPT !.small[r].flags = @ \cup {"USED"}]

\* the migration of one used child `old` of the donor L to a popped chunk
coalesce_migrate(s, L, old) ==
  LET \* memcpy(replacement, iter, sizeof(small_chunk_t))
      Copy(t, r) ==
        [Chk(t, t.small[r].flags = {"INITIALIZED"},
             "coalesce_replacement_flags")
           EXCEPT !.title[r] = t.title[old],
                  !.body[r] = t.body[old],
                  !.small[r].flags = t.small[old].flags]
      Move(m, r) ==
        IF "TITLE" \in m.small[old].flags
        THEN coalesce_move_title(m, old, r)
        ELSE coalesce_move_body(m, old, r)
      Leave(t, r) ==
        Ev([t EXCEPT
              !.small[old].flags = {"INITIALIZED", "COALESCE_PENDING"},
              !.title[old] = BlankHdr,
              !.body[old] = BlankBody,
              !.large[L].small_chunks_allocated = @ - 1],
           <<"migrate", old, r>>)
      Swap(p) ==
        IF p.ret = NULL THEN Chk(p.st, FALSE, "coalesce_replacement_null")
        ELSE Leave(Move(Copy(p.st, p.ret), p.ret), p.ret)
  IN Swap(free_list_pop_small(s))

RECURSIVE coalesce_migrate_used(_, _, _)
\* second loop over the donor: every used child moves to a replacement
coalesce_migrate_used(s, L, i) ==
  IF i >= S THEN s
  ELSE LET a == Child(L, i)
           Migrate(t) ==
             IF "USED" \in t.small[a].flags THEN coalesce_migrate(t, L, a)
             ELSE t
       IN coalesce_migrate_used(
            Migrate(Chk(s, "INITIALIZED" \in s.small[a].flags,
                        "coalesce_child_initialized")),
            L, i + 1)

RECURSIVE coalesce_loop(_, _)
\* [st, ret], ret "NO_PROGRESS" or "LARGE_CHUNK_FORMED"
coalesce_loop(s, retval) ==
  LET Form(lc) ==
        LET n == s.large[lc].small_chunks_allocated
            Empty(t) ==
              IF n # 0
              THEN coalesce_migrate_used(coalesce_park_free(t, lc, 0), lc, 0)
              ELSE t
        IN unbreak_large_chunk(
             HistAdd(Empty([HistAdd(s, n, -1)
                              EXCEPT !.fsi.stats.migrates = @ + n]), 0, 1),
             lc, TRUE)
      Try(lc) ==
        IF lc = NULL THEN [st |-> s, ret |-> retval]
        ELSE coalesce_loop(Form(lc), "LARGE_CHUNK_FORMED")
  IN IF ~(s.fsi.small_free_list_sz >= S) THEN [st |-> s, ret |-> retval]
     ELSE Try(find_unreferenced_broken_chunk(s, 0))

coalesce_free_small_chunks(s) ==
  coalesce_loop(Ev(s, <<"coalesce">>), "NO_PROGRESS")

(* ------------------------------ eviction ------------------------------- *)
RECURSIVE nearest_unreferenced(_, _, _)
\* the item with refcount 0 nearest to the LRU tail, from `iter` on by
\* prev, in the whole LRU; an observation at the moment of an eviction
nearest_unreferenced(s, iter, fuel) ==
  IF iter = NULL \/ fuel = 0 THEN NULL
  ELSE IF s.title[iter].refcount = 0 THEN iter
  ELSE nearest_unreferenced(s, s.title[iter].prev, fuel - 1)

\* an observation at the moment of an eviction: the request, what is left
\* of the region and of the free lists, whether a coalesce pass has run in
\* this operation, and what a coalesce pass would return now
evict_moment(s, chunk_type, nchunks) ==
  <<"evict_moment", chunk_type, nchunks, s.fsi.unused_memory,
    s.fsi.large_free_list_sz, s.fsi.small_free_list_sz,
    <<"coalesce">> \in s.evs, coalesce_free_small_chunks(s).ret>>

RECURSIVE flat_storage_lru_evict_small_rule(_, _, _)
\* flat_storage_lru_evict with the test of the small class for both classes
flat_storage_lru_evict_small_rule(s, chunk_type, nchunks) ==
  LET Unlinked(u) ==
        IF u.fsi.large_free_list_sz * S + u.fsi.small_free_list_sz >= nchunks
        THEN [st |-> u, ret |-> TRUE]
        ELSE flat_storage_lru_evict_small_rule(u, chunk_type, nchunks)
      Evict(lru_item) ==
        IF lru_item = NULL THEN [st |-> s, ret |-> FALSE]
        ELSE Unlinked(do_item_unlink(
               Ev(s, evict_moment(s, chunk_type, nchunks)),
               lru_item, "MAYBE_EVICT", <<>>))
  IN Evict(get_lru_item(s))

RECURSIVE flat_storage_lru_evict(_, _, _)
\* [st, ret]
flat_storage_lru_evict(s, chunk_type, nchunks) ==
  LET Coalesced(c) ==
        IF c.ret = "NO_PROGRESS"
        THEN flat_storage_lru_evict(c.st, chunk_type, nchunks)
        ELSE IF c.st.fsi.large_free_list_sz >= nchunks
        THEN [st |-> c.st, ret |-> TRUE]
        ELSE flat_storage_lru_evict(c.st, chunk_type, nchunks)
      Unlinked(u) ==
        IF chunk_type = "SMALL"
        THEN IF u.fsi.large_free_list_sz * S + u.fsi.small_free_list_sz
                  >= nchunks
             THEN [st |-> u, ret |-> TRUE]
             ELSE flat_storage_lru_evict(u, chunk_type, nchunks)
        ELSE IF u.fsi.large_free_list_sz >= nchunks
        THEN [st |-> u, ret |-> TRUE]
        ELSE IF u.fsi.large_free_list_sz * S + u.fsi.small_free_list_sz
                  >= nchunks * S
        THEN Coalesced(coalesce_free_small_chunks(u))
        ELSE flat_storage_lru_evict(u, chunk_type, nchunks)
      Evict(lru_item) ==
        IF lru_item = NULL THEN [st |-> s, ret |-> FALSE]
        ELSE Unlinked(do_item_unlink(
               Ev(Ev(Ev(s, <<"lru_evict", s.title[lru_item].refcount>>),
                     <<"evict_order", lru_item,
                       nearest_unreferenced(s, s.fsi.lru_tail, NLarge * S)>>),
                  evict_moment(s, chunk_type, nchunks)),
               lru_item, "MAYBE_EVICT", <<>>))
  IN Evict(get_lru_item(s))

(* ------------------------------ do_item_alloc -------------------------- *)
\* the header do_item_alloc writes; it leaves the field time alone
NewHdr(s, it, key, nkey, exptime, nbytes) ==
  [h_next |-> NULL, next |-> NULL, prev |-> NULL, next_chunk |-> NULL,
   time |-> s.title[it].time, exptime |-> exptime, nbytes |-> nbytes,
   nkey |-> nkey, refcount |-> 1, it_flags |-> {"VALID"}, key |-> key]

\* what a pass of the acquisition loop of do_item_alloc finds at the loop
\* top: its number, and the sizes and counters of that moment
alloc_pass(s, chunk_type) ==
  <<"alloc_pass", chunk_type,
    Cardinality({e \in s.evs : e[1] = "alloc_pass"}),
    s.fsi.unused_memory, s.stats.curr_items, s.fsi.stats.break_events,
    s.fsi.stats.unbreak_events, s.fsi.large_free_list_sz,
    s.fsi.small_free_list_sz>>

RECURSIVE alloc_large_loop_evicts_first(_, _, _)
\* the acquisition loop of the large class without the coalesce pass
\* between flat_storage_alloc and flat_storage_lru_evict
alloc_large_loop_evicts_first(s, needed, prev_free) ==
  LET pf == s.fsi.large_free_list_sz
      Evicted(e) ==
        IF e.ret THEN alloc_large_loop_evicts_first(e.st, needed, pf)
        ELSE [st |-> e.st, ok |-> FALSE]
      Grown(g, t) ==
        IF g.ret THEN alloc_large_loop_evicts_first(g.st, needed, pf)
        ELSE Evicted(flat_storage_lru_evict(
               Ev(t, <<"evict_call", "LARGE">>), "LARGE", needed))
  IN IF ~(s.fsi.large_free_list_sz < needed) THEN [st |-> s, ok |-> TRUE]
     ELSE Grown(flat_storage_alloc(s), s)

RECURSIVE alloc_large_loop(_, _, _)
\* the acquisition loop of the large class: [st, ok]
alloc_large_loop(s, needed, prev_free) ==
  LET pf == s.fsi.large_free_list_sz
      Evicted(e) ==
        IF e.ret THEN alloc_large_loop(e.st, needed, pf)
        ELSE [st |-> e.st, ok |-> FALSE]
      Coalesced(t) ==
        IF pf # t.fsi.large_free_list_sz
        THEN alloc_large_loop(t, needed, pf)
        ELSE Evicted(flat_storage_lru_evict(
               Ev(t, <<"evict_call", "LARGE">>), "LARGE", needed))
      Coalesce(t) ==
        IF t.fsi.large_free_list_sz * S + t.fsi.small_free_list_sz
             >= needed * S
        THEN coalesce_free_small_chunks(t).st
        ELSE t
      Grown(g, t) ==
        IF g.ret THEN alloc_large_loop(g.st, needed, pf)
        ELSE Coalesced(Coalesce(t))
      Pass(t) == Grown(flat_storage_alloc(t), t)
  IN IF ~(s.fsi.large_free_list_sz < needed) THEN [st |-> s, ok |-> TRUE]
     ELSE Pass(Ev(Chk(s, prev_free # pf, "alloc_large_progress"),
                  alloc_pass(s, "LARGE")))

RECURSIVE alloc_large_bodies_unchained(_, _, _, _, _)
\* the large body loop of do_item_alloc without *(prev_next) = chunk
alloc_large_bodies_unchained(s, it, prev, needed, write_offset) ==
  LET Chain(p) ==
        alloc_large_bodies_unchained(
          [p.st EXCEPT !.large[p.ret].flags = @ \cup {"USED"},
                       !.body[LAddr(p.ret)].next_chunk = NULL],
          it, LAddr(p.ret), needed - 1,
          write_offset - LARGE_BODY_CHUNK_DATA_SZ)
  IN IF ~(needed > 0) THEN s ELSE Chain(free_list_pop_large(s))

RECURSIVE alloc_large_bodies(_, _, _, _, _)
\* pops the body chunks of a large item; prev is the chunk whose next_chunk
\* is written (the title `it` or a body), write_offset the bytes left
alloc_large_bodies(s, it, prev, needed, write_offset) ==
  LET Hook(t, a) ==
        IF prev = it THEN [t EXCEPT !.title[it].next_chunk = a]
        ELSE [t EXCEPT !.body[prev].next_chunk = a]
      Stamp(t) ==
        IF needed = 1
        THEN [t EXCEPT !.title[it].it_flags = @ \cup
                do_stamp_on_block(write_offset, LARGE_BODY_CHUNK_DATA_SZ)]
        ELSE t
      Chain(p) ==
        alloc_large_bodies(
          [Stamp(Hook(Chk([p.st EXCEPT !.large[p.ret].flags = @ \cup {"USED"}],
                          p.ret # NULL, "alloc_pop_null"),
                      LAddr(p.ret)))
             EXCEPT !.body[LAddr(p.ret)].next_chunk = NULL],
          it, LAddr(p.ret), needed - 1,
          write_offset - LARGE_BODY_CHUNK_DATA_SZ)
  IN IF ~(needed > 0) THEN s ELSE Chain(free_list_pop_large(s))

RECURSIVE alloc_small_loop_prev_after_step(_, _, _, _)
\* the acquisition loop of the small class that takes small_prev_free and
\* large_prev_free after the step of the pass, not before it
alloc_small_loop_prev_after_step(s, needed, small_prev_free, large_prev_free) ==
  LET spf == s.fsi.small_free_list_sz
      lpf == s.fsi.large_free_list_sz
      Again(t) ==
        alloc_small_loop_prev_after_step(t, needed, t.fsi.small_free_list_sz,
                                         t.fsi.large_free_list_sz)
      Evicted(e) ==
        IF e.ret THEN Again(e.st) ELSE [st |-> e.st, ok |-> FALSE]
      Grown(g, t) ==
        IF g.ret THEN Again(g.st)
        ELSE Evicted(flat_storage_lru_evict(t, "SMALL", needed))
      Pass(t) ==
        IF lpf > 0
        THEN Again(break_large_chunk(free_list_pop_large(t).st,
                                     free_list_pop_large(t).ret))
        ELSE Grown(flat_storage_alloc(t), t)
  IN IF ~(s.fsi.small_free_list_sz < needed) THEN [st |-> s, ok |-> TRUE]
     ELSE Pass(Ev(Chk(s, small_prev_free # spf \/ large_prev_free # lpf,
                      "alloc_small_progress"),
                  alloc_pass(s, "SMALL")))

RECURSIVE alloc_small_loop(_, _, _, _)
\* the acquisition loop of the small class: [st, ok]
alloc_small_loop(s, needed, small_prev_free, large_prev_free) ==
  LET spf == s.fsi.small_free_list_sz
      lpf == s.fsi.large_free_list_sz
      Broken(p) ==
        alloc_small_loop(break_large_chunk(p.st, p.ret), needed, spf, lpf)
      Evicted(e) ==
        IF e.ret THEN alloc_small_loop(e.st, needed, spf, lpf)
        ELSE [st |-> e.st, ok |-> FALSE]
      Grown(g, t) ==
        IF g.ret THEN alloc_small_loop(g.st, needed, spf, lpf)
        ELSE Evicted(flat_storage_lru_evict(
               Ev(t, <<"evict_call", "SMALL">>), "SMALL", needed))
      Pass(t) ==
        IF lpf > 0 THEN Broken(free_list_pop_large(t))
        ELSE Grown(flat_storage_alloc(t), t)
  IN IF ~(s.fsi.small_free_list_sz < needed) THEN [st |-> s, ok |-> TRUE]
     ELSE Pass(Ev(Chk(s, small_prev_free # spf \/ large_prev_free # lpf,
                      "alloc_small_progress"),
                  alloc_pass(s, "SMALL")))

RECURSIVE alloc_small_bodies(_, _, _, _, _)
alloc_small_bodies(s, it, prev, needed, write_offset) ==
  LET Hook(t, a) ==
        IF prev = it THEN [t EXCEPT !.title[it].next_chunk = a]
        ELSE [t EXCEPT !.body[prev].next_chunk = a]
      Stamp(t) ==
        IF needed = 1
        THEN [t EXCEPT !.title[it].it_flags = @ \cup
                do_stamp_on_block(write_offset, SMALL_BODY_CHUNK_DATA_SZ)]
        ELSE t
      Chain(p) ==
        alloc_small_bodies(
          Stamp([Hook(Chk([p.st EXCEPT !.small[p.ret].flags = @ \cup {"USED"}],
                          p.ret # NULL, "alloc_pop_null"),
                      p.ret)
                   EXCEPT !.body[p.ret].prev_chunk = prev,
                          !.body[p.ret].next_chunk = NULL]),
          it, p.ret, needed - 1, write_offset - SMALL_BODY_CHUNK_DATA_SZ)
  IN IF ~(needed > 0) THEN s ELSE Chain(free_list_pop_small(s))

\* [st, ret]: ret the item or NULL.  prev_free starts at size - 1, which
\* differs from every size (in C it wraps to SIZE_MAX when the size is 0).
do_item_alloc(s, key, nkey, exptime, nbytes) ==
  LET needed == chunks_needed(nkey, nbytes)
      write_offset == nkey + nbytes
      Stamp(t, it, block_sz) ==
        IF needed = 1
        THEN [t EXCEPT !.title[it].it_flags = @ \cup
                do_stamp_on_block(write_offset, block_sz)]
        ELSE t
      LargeTitle(p) ==
        [st |-> alloc_large_bodies(
                  [Stamp([Chk([p.st EXCEPT !.large[p.ret].flags =
                                              @ \cup {"USED", "TITLE"}],
                              p.ret # NULL, "alloc_pop_null")
                            EXCEPT !.title[LAddr(p.ret)] =
                                     NewHdr(p.st, LAddr(p.ret), key, nkey,
                                            exptime, nbytes)],
                         LAddr(p.ret), LARGE_TITLE_CHUNK_DATA_SZ)
                     EXCEPT !.fsi.stats.large_title_chunks = @ + 1,
                            !.fsi.stats.large_body_chunks = @ + (needed - 1)],
                  LAddr(p.ret), LAddr(p.ret), needed - 1,
                  write_offset - LARGE_TITLE_CHUNK_DATA_SZ),
         ret |-> LAddr(p.ret)]
      SmallTitle(p) ==
        [st |-> alloc_small_bodies(
                  [Stamp([Chk([p.st EXCEPT !.small[p.ret].flags =
                                              @ \cup {"USED", "TITLE"}],
                              p.ret # NULL, "alloc_pop_null")
                            EXCEPT !.title[p.ret] =
                                     NewHdr(p.st, p.ret, key, nkey,
                                            exptime, nbytes)],
                         p.ret, SMALL_TITLE_CHUNK_DATA_SZ)
                     EXCEPT !.fsi.stats.small_title_chunks = @ + 1,
                            !.fsi.stats.small_body_chunks = @ + (needed - 1)],
                  p.ret, p.ret, needed - 1,
                  write_offset - SMALL_TITLE_CHUNK_DATA_SZ),
         ret |-> p.ret]
      Large(l) ==
        IF ~l.ok THEN [st |-> l.st, ret |-> NULL]
        ELSE LargeTitle(free_list_pop_large(l.st))
      Small(l) ==
        IF ~l.ok THEN [st |-> l.st, ret |-> NULL]
        ELSE SmallTitle(free_list_pop_small(l.st))
  IN IF ~item_size_ok(nkey, nbytes) THEN [st |-> s, ret |-> NULL]
     ELSE IF is_large_chunk(nkey, nbytes)
     THEN Large(alloc_large_loop(s, needed, s.fsi.large_free_list_sz - 1))
     ELSE Small(alloc_small_loop(s, needed, s.fsi.small_free_list_sz - 1,
                                 s.fsi.large_free_list_sz))

(* ------------------------------ item life cycle ------------------------ *)
\* do_item_deref without the release of the unreferenced, unlinked item
do_item_deref_keeps_item(s, it) ==
  IF s.title[it].refcount # 0
  THEN [s EXCEPT !.title[it].refcount = @ - 1]
  ELSE s

\* do_item_deref that decrements without the test refcount != 0
do_item_deref_below_zero(s, it) ==
  LET Release(t) ==
        IF t.title[it].refcount = 0 /\ "LINKED" \notin t.title[it].it_flags
        THEN item_free(t, it)
        ELSE t
  IN Release([s EXCEPT !.title[it].refcount = @ - 1])

do_item_deref(s, it) ==
  LET Drop(t) ==
        IF t.title[it].refcount # 0
        THEN [t EXCEPT !.title[it].refcount = @ - 1]
        ELSE t
      Checked(t) ==
        Chk(t, "DELETED" \notin t.title[it].it_flags
               \/ t.title[it].refcount # 0, "deref_deleted")
      Release(t) ==
        IF t.title[it].refcount = 0 /\ "LINKED" \notin t.title[it].it_flags
        THEN item_free(t, it)
        ELSE t
  IN Release(Checked(Drop(
       Chk(s, "VALID" \in s.title[it].it_flags, "deref_valid"))))

\* rel_time_t is unsigned: current_time - ITEM_UPDATE_INTERVAL wraps
\* do_item_update that stamps the item and leaves it where it is in the LRU
do_item_update_in_place(s, it) ==
  IF "LINKED" \in s.title[it].it_flags
     /\ s.title[it].time
          < (s.current_time + REL_TIME_MOD - ITEM_UPDATE_INTERVAL)
            % REL_TIME_MOD
  THEN [s EXCEPT !.title[it].time = s.current_time]
  ELSE s

do_item_update(s, it) ==
  LET Requeue(t) ==
        IF "LINKED" \in t.title[it].it_flags
        THEN item_link_q(
               [item_unlink_q(t, it) EXCEPT !.title[it].time = t.current_time],
               it)
        ELSE t
  IN IF s.title[it].time
          < (s.current_time + REL_TIME_MOD - ITEM_UPDATE_INTERVAL)
            % REL_TIME_MOD
     THEN Requeue(Chk(s, "VALID" \in s.title[it].it_flags, "update_valid"))
     ELSE s

\* do_item_replace that links the new item and leaves the old one linked
do_item_replace_link_only(s, it, new_it, key) ==
  do_item_link(s, new_it, key)

do_item_replace(s, it, new_it, key) ==
  LET Checked(t) ==
        Chk(t, "VALID" \in t.title[new_it].it_flags, "replace_new")
  IN do_item_link(
       Checked(do_item_unlink(
         Chk(s, {"VALID", "LINKED"} \subseteq s.title[it].it_flags,
             "replace_old"),
         it, "NORMAL", key)),
       new_it, key)

RECURSIVE flush_expired_loop_evicts(_, _)
\* the loop of do_item_flush_expired that unlinks with UNLINK_IS_EVICT
flush_expired_loop_evicts(s, iter) ==
  IF iter = NULL THEN s
  ELSE IF s.title[iter].time >= s.settings.oldest_live
  THEN flush_expired_loop_evicts(
         do_item_unlink(s, iter, "IS_EVICT", <<>>), s.title[iter].next)
  ELSE s

RECURSIVE flush_expired_loop(_, _)
flush_expired_loop(s, iter) ==
  IF iter = NULL THEN s
  ELSE IF s.title[iter].time >= s.settings.oldest_live
  THEN flush_expired_loop(
         do_item_unlink(
           Chk(s, {"VALID", "LINKED"} \subseteq s.title[iter].it_flags,
               "flush_linked"),
           iter, "IS_EXPIRED", <<>>),
         s.title[iter].next)
  ELSE s

do_item_flush_expired(s) ==
  LET Second(t) == flush_expired_loop(t, t.fsi.lru_head)
  IN IF s.settings.oldest_live = 0 THEN s
     ELSE Second(flush_expired_loop(s, s.fsi.lru_head))

item_delete_lock_over(s, it) == s.current_time >= s.title[it].exptime

\* [st, ret, delete_locked]
\* do_item_get_notedeleted without the flush barrier and the expiry time
do_item_get_without_checks(s, key) ==
  LET Take(it) ==
        IF it # NULL THEN [s EXCEPT !.title[it].refcount = @ + 1] ELSE s
  IN [st |-> Take(assoc_find(s, key)), ret |-> assoc_find(s, key),
      delete_locked |-> FALSE]

\* do_item_get_notedeleted without the test of the delete lock
do_item_get_ignores_delete_lock(s, key) ==
  LET Take(t, it) ==
        IF it # NULL THEN [t EXCEPT !.title[it].refcount = @ + 1] ELSE t
      Expiry(t, it) ==
        IF it # NULL /\ t.title[it].exptime # 0
           /\ t.title[it].exptime <= t.current_time
        THEN [st |-> do_item_unlink(t, it, "IS_EXPIRED", key),
              ret |-> NULL, delete_locked |-> FALSE]
        ELSE [st |-> Take(t, it), ret |-> it, delete_locked |-> FALSE]
  IN Expiry(s, assoc_find(s, key))

do_item_get_notedeleted(s, key) ==
  LET Locked(f) ==
        f # NULL /\ "DELETED" \in s.title[f].it_flags
        /\ ~item_delete_lock_over(s, f)
      Take(t, it) ==
        IF it # NULL THEN [t EXCEPT !.title[it].refcount = @ + 1] ELSE t
      Expiry(t, it, locked) ==
        IF it # NULL /\ t.title[it].exptime # 0
           /\ t.title[it].exptime <= t.current_time
        THEN [st |-> do_item_unlink(t, it, "IS_EXPIRED", key),
              ret |-> NULL, delete_locked |-> locked]
        ELSE [st |-> Take(t, it), ret |-> it, delete_locked |-> locked]
      Flushed(t, it, locked) ==
        IF it # NULL /\ t.settings.oldest_live # 0
           /\ t.settings.oldest_live <= t.current_time
           /\ t.title[it].time <= t.settings.oldest_live
        THEN Expiry(do_item_unlink(t, it, "IS_EXPIRED", key), NULL, locked)
        ELSE Expiry(t, it, locked)
      Found(f) ==
        IF Locked(f) THEN Flushed(s, NULL, TRUE) ELSE Flushed(s, f, FALSE)
  IN Found(assoc_find(s, key))

(* ------------------------------ state ---------------------------------- *)
VARIABLES
  fsi,           \* flat_storage_info_t: region, free lists, LRU ends, stats
  large,         \* per large chunk: flags, lc_free.next, small_chunks_allocated
  small,         \* per small chunk: flags, sc_free.next, sc_free.prev_next
  title,         \* per address: the item header of a title chunk
  body,          \* per address: next_chunk / prev_chunk of a body chunk
  assoc,         \* head of the hash chain
  stats,         \* stats_t: item_total_size, curr_items, evictions
  current_time,  \* the clock
  settings       \* settings.oldest_live

vars == <<fsi, large, small, title, body, assoc, stats, current_time,
          settings>>

Keys == {<<k>> : k \in 1 .. NumKeys}
\* value lengths the callers store, one per item shape (with a key of
\* length 1: 2 small chunks, 1 large chunk, 2 large chunks)
ValueSizes == {3, 5, 10}
ExpTimes == {0}
UnlinkFlags == {"NORMAL", "MAYBE_EVICT", "IS_EVICT", "IS_EXPIRED"}

\* the program state as the operators take it; fail and evs collect the
\* failed assertions and the observations of one operation
St ==
  [fsi |-> fsi, large |-> large, small |-> small, title |-> title,
   body |-> body, assoc |-> assoc, stats |-> stats,
   current_time |-> current_time, settings |-> settings,
   fail |-> {}, evs |-> {}]

Blank ==
  [fsi |-> [unused_memory |-> maxbytes, uninitialized_start |-> 1,
            large_free_list |-> NULL, large_free_list_sz |-> 0,
            small_free_list |-> NULL, small_free_list_sz |-> 0,
            lru_head |-> NULL, lru_tail |-> NULL,
            stats |-> [large_title_chunks |-> 0, large_body_chunks |-> 0,
                       large_broken_chunks |-> 0, small_title_chunks |-> 0,
                       small_body_chunks |-> 0,
                       broken_chunk_histogram |-> [k \in 0 .. S |-> 0],
                       break_events |-> 0, unbreak_events |-> 0,
                       migrates |-> 0]],
   large |-> [L \in LargeIdx |-> BlankLarge],
   small |-> [a \in Addrs |-> BlankSmall],
   title |-> [a \in Addrs |-> BlankHdr],
   body |-> [a \in Addrs |-> BlankBody],
   assoc |-> NULL,
   stats |-> [item_total_size |-> 0, curr_items |-> 0, evictions |-> 0],
   current_time |-> 0,
   settings |-> [oldest_live |-> 0],
   fail |-> {}, evs |-> {}]

\* flat_storage_init
flat_storage_init ==
  LET g == flat_storage_alloc(Blank)
  IN Chk(g.st, g.st.fsi.large_free_list_sz # 0, "init_free_list")

\* the item whose title chunk is at address a, if there is one
IsItem(s, a) ==
  LET L == get_parent_chunk(a)
  IN IF "BROKEN" \in s.large[L].flags
     THEN {"USED", "TITLE"} \subseteq s.small[a].flags
     ELSE a = LAddr(L) /\ {"USED", "TITLE"} \subseteq s.large[L].flags

Items(s) == {a \in Addrs : IsItem(s, a)}

RECURSIVE SumRefs(_, _)
SumRefs(s, a) == IF a = 0 THEN 0 ELSE s.title[a].refcount + SumRefs(s, a - 1)

\* the model stops where a counter or the number of references passes its
\* bound
Bounded(s) ==
  /\ s.fsi.stats.break_events <= MaxBreaks
  /\ s.fsi.stats.migrates <= MaxMigrates
  /\ s.stats.evictions <= MaxEvictions
  /\ SumRefs(s, NLarge * S) <= MaxRefs

Install(s) ==
  /\ Bounded(s)
  /\ fsi' = s.fsi
  /\ large' = s.large
  /\ small' = s.small
  /\ title' = s.title
  /\ body' = s.body
  /\ assoc' = s.assoc
  /\ stats' = s.stats
  /\ current_time' = s.current_time
  /\ settings' = s.settings

Init ==
  LET s == flat_storage_init
  IN /\ fsi = s.fsi
     /\ large = s.large
     /\ small = s.small
     /\ title = s.title
     /\ body = s.body
     /\ assoc = s.assoc
     /\ stats = s.stats
     /\ current_time = s.current_time
     /\ settings = s.settings

(* ------------------------------ operations ----------------------------- *)
(* One action per public operation, applied under the cache lock.  The     *)
(* callers pass an item that is allocated, and the item's own key.         *)
Alloc ==
  \E key \in Keys, nbytes \in ValueSizes, exptime \in ExpTimes :
    Install(do_item_alloc(St, key, Len(key), exptime, nbytes).st)

\* the callers link an item only when the table holds no item under its
\* key (they replace otherwise)
Link ==
  \E it \in Items(St) :
    /\ "LINKED" \notin title[it].it_flags
    /\ assoc_find(St, title[it].key) = NULL
    /\ Install(do_item_link(St, it, title[it].key))

Unlink ==
  \E it \in Items(St), flags \in UnlinkFlags :
    Install(do_item_unlink(St, it, flags, title[it].key))

Deref ==
  \E it \in Items(St) : Install(do_item_deref(St, it))

Update ==
  \E it \in Items(St) : Install(do_item_update(St, it))

Replace ==
  \E it \in Items(St), new_it \in Items(St) :
    /\ "LINKED" \in title[it].it_flags
    /\ "LINKED" \notin title[new_it].it_flags
    /\ title[it].key = title[new_it].key
    /\ Install(do_item_replace(St, it, new_it, title[it].key))

Get ==
  \E key \in Keys : Install(do_item_get_notedeleted(St, key).st)

FlushExpired == Install(do_item_flush_expired(St))

\* flush_all: the callers set the flush barrier
SetOldestLive ==
  \E t \in 0 .. current_time :
    /\ settings.oldest_live # t
    /\ Install([St EXCEPT !.settings.oldest_live = t])

\* the clock ticks
Tick ==
  /\ current_time < MaxTime
  /\ Install([St EXCEPT !.current_time = @ + 1])

Next ==
  \/ Alloc
  \/ Link
  \/ Unlink
  \/ Deref
  \/ Update
  \/ Replace
  \/ Get
  \/ FlushExpired
  \/ SetOldestLive
  \/ Tick

Spec == Init /\ [][Next]_vars

(* ------------------------------ properties ----------------------------- *)
\* the state every public operation leaves when it is applied to the
\* current state, with the observations (evs) of that operation
Outcomes ==
  {do_item_alloc(St, key, Len(key), exptime, nbytes).st :
     key \in Keys, exptime \in ExpTimes, nbytes \in ValueSizes}
  \cup {do_item_unlink(St, it, flags, title[it].key) :
          it \in Items(St), flags \in UnlinkFlags}
  \cup {do_item_link(St, it, title[it].key) :
          it \in {i \in Items(St) : "LINKED" \notin title[i].it_flags}}
  \cup {do_item_deref(St, it) : it \in Items(St)}
  \cup {do_item_update(St, it) : it \in Items(St)}
  \cup {do_item_get_notedeleted(St, key).st : key \in Keys}
  \cup {do_item_flush_expired(St)}

RECURSIVE ItemChunks(_, _, _)
\* the chunks of an item: its title and the chain of next_chunk
ItemChunks(s, c, fuel) ==
  IF c = NULL \/ fuel = 0 THEN {}
  ELSE {c} \cup ItemChunks(s, s.body[c].next_chunk, fuel - 1)

ChunksOf(s, it) ==
  {it} \cup ItemChunks(s, s.title[it].next_chunk, NLarge * S)

RECURSIVE WalkLarge(_, _, _)
\* the large free list from L on, as the sequence of its chunks
WalkLarge(s, L, fuel) ==
  IF L = NULL \/ fuel = 0 THEN <<>>
  ELSE <<L>> \o WalkLarge(s, s.large[L].next, fuel - 1)

RECURSIVE WalkSmall(_, _, _)
WalkSmall(s, a, fuel) ==
  IF a = NULL \/ fuel = 0 THEN <<>>
  ELSE <<a>> \o WalkSmall(s, s.small[a].next, fuel - 1)

RECURSIVE WalkNext(_, _, _)
\* the LRU from `it` on by next, and by prev
WalkNext(s, it, fuel) ==
  IF it = NULL \/ fuel = 0 THEN <<>>
  ELSE <<it>> \o WalkNext(s, s.title[it].next, fuel - 1)

RECURSIVE WalkPrev(_, _, _)
WalkPrev(s, it, fuel) ==
  IF it = NULL \/ fuel = 0 THEN <<>>
  ELSE <<it>> \o WalkPrev(s, s.title[it].prev, fuel - 1)

\* a walk longer than the memory has chunks went round a cycle
Fuel == NLarge * S + 1
LargeFree == WalkLarge(St, fsi.large_free_list, Fuel)
SmallFree == WalkSmall(St, fsi.small_free_list, Fuel)
LruForward == WalkNext(St, fsi.lru_head, Fuel)
LruBackward == WalkPrev(St, fsi.lru_tail, Fuel)

Range(q) == {q[i] : i \in 1 .. Len(q)}
NoRepeat(q) == \A i, j \in 1 .. Len(q) : q[i] = q[j] => i = j
Reverse(q) == [i \in 1 .. Len(q) |-> q[Len(q) + 1 - i]]

Linked == {it \in Items(St) : "LINKED" \in title[it].it_flags}
BrokenChunks == {L \in LargeIdx : "BROKEN" \in large[L].flags}
UsedChildren(L) ==
  {i \in 0 .. (S - 1) : "USED" \in small[Child(L, i)].flags}

\* the chunk at address a is on a free list: the small one, or the large
\* one with the large chunk it is part of
OnFreeList(a) ==
  a \in Range(SmallFree) \/ get_parent_chunk(a) \in Range(LargeFree)

\* C1: an item with refcount > 0 is never evicted and never freed: whatever
\* operation is applied, flat_storage_lru_evict unlinks only items with
\* refcount 0 and item_free releases only items with refcount 0, and no
\* chunk of an item with refcount > 0 is on a free list or carries FREE
C1_ReferencedNeverEvicted ==
  /\ \A r \in Outcomes : \A e \in r.evs :
       e[1] \in {"lru_evict", "free"} => e[2] = 0
  /\ \A it \in Items(St) :
       title[it].refcount > 0 =>
         \A c \in ChunksOf(St, it) :
           /\ ~OnFreeList(c)
           /\ IF is_item_large_chunk(St, it)
              THEN large[get_parent_chunk(c)].flags \cap {"USED", "FREE"}
                   = {"USED"}
              ELSE small[c].flags \cap {"USED", "FREE"} = {"USED"}

\* an allocation evicts an unreferenced item although the item at the LRU
\* tail is referenced
C1_Witness ==
  /\ fsi.lru_tail # NULL
  /\ title[fsi.lru_tail].refcount > 0
  /\ \E key \in Keys, nbytes \in ValueSizes :
       LET r == do_item_alloc(St, key, Len(key), 0, nbytes)
       IN /\ <<"lru_evict", 0>> \in r.st.evs
          /\ r.ret # NULL
          /\ Bounded(r.st)
          /\ r.st.title[fsi.lru_tail].refcount > 0
          /\ "LINKED" \in r.st.title[fsi.lru_tail].it_flags

\* C2: after every public operation no allocated item has refcount 0 and
\* LINKED clear: an unreferenced, unlinked item has been freed
C2_NoUnreferencedUnlinkedItem ==
  \A it \in Items(St) :
    ~(title[it].refcount = 0 /\ "LINKED" \notin title[it].it_flags)

\* an unlinked item holds its last reference, and do_item_deref on it
\* leaves no item at its address; another item stays linked and
\* unreferenced
C2_Witness ==
  /\ \E it \in Items(St) :
       /\ title[it].refcount = 1
       /\ "LINKED" \notin title[it].it_flags
       /\ it \notin Items(do_item_deref(St, it))
  /\ \E it \in Items(St) :
       title[it].refcount = 0 /\ "LINKED" \in title[it].it_flags

RECURSIVE WalkHash(_, _, _)
\* the hash chain from `it` on
WalkHash(s, it, fuel) ==
  IF it = NULL \/ fuel = 0 THEN <<>>
  ELSE <<it>> \o WalkHash(s, s.title[it].h_next, fuel - 1)

AssocChain == WalkHash(St, assoc, Fuel)

\* the table holds nothing but allocated, linked items
AssocSound ==
  \A it \in Range(AssocChain) :
    it \in Items(St) /\ "LINKED" \in title[it].it_flags

\* the callers link an item whether or not the table holds an item under
\* its key: do_item_link does not look the key up
LinkSameKey ==
  \E it \in Items(St) :
    /\ "LINKED" \notin title[it].it_flags
    /\ Install(do_item_link(St, it, title[it].key))

\* the operations with links of several items under one key; a table that
\* holds a stale item ends the run (the next lookup may read freed memory)
NextSameKey ==
  \/ AssocSound /\ Alloc
  \/ AssocSound /\ LinkSameKey
  \/ AssocSound /\ Unlink
  \/ AssocSound /\ Deref
  \/ AssocSound /\ Replace
  \/ AssocSound /\ Get

SpecSameKey == Init /\ [][NextSameKey]_vars

\* C3: after every public operation every item with LINKED is in the assoc
\* table under its key, and every item the assoc table returns for a key
\* has LINKED
C3_LinkedIffInAssoc ==
  /\ \A it \in Linked : it \in Range(AssocChain)
  /\ \A key \in Keys :
       assoc_find(St, key) # NULL => assoc_find(St, key) \in Linked

\* C4: after every public operation the LRU is a consistent doubly-linked
\* list: lru_head is NULL exactly when lru_tail is NULL, the head has no
\* prev, the tail has no next, and x.next = y exactly when y.prev = x
C4_LruDoublyLinked ==
  /\ (fsi.lru_head = NULL) <=> (fsi.lru_tail = NULL)
  /\ fsi.lru_head # NULL =>
       fsi.lru_head \in Items(St) /\ title[fsi.lru_head].prev = NULL
  /\ fsi.lru_tail # NULL =>
       fsi.lru_tail \in Items(St) /\ title[fsi.lru_tail].next = NULL
  /\ \A x \in Items(St) :
       /\ title[x].next # NULL =>
            title[x].next \in Items(St) /\ title[title[x].next].prev = x
       /\ title[x].prev # NULL =>
            title[x].prev \in Items(St) /\ title[title[x].prev].next = x

\* two items are on the LRU, one after the other, after an item has been
\* taken off the LRU
C4_Witness ==
  /\ fsi.lru_head # NULL
  /\ fsi.lru_head # fsi.lru_tail
  /\ title[fsi.lru_head].next = fsi.lru_tail
  /\ title[fsi.lru_tail].prev = fsi.lru_head
  /\ \E it \in Items(St) : "LINKED" \notin title[it].it_flags

\* C5: after every public operation the walk by next from lru_head visits
\* exactly the LINKED items, each once, and ends at lru_tail; their number
\* is curr_items; the walk by prev from lru_tail is the same in reverse
C5_LruIsTheLinkedItems ==
  /\ NoRepeat(LruForward)
  /\ Range(LruForward) = Linked
  /\ Len(LruForward) = stats.curr_items
  /\ LruForward # <<>> => LruForward[Len(LruForward)] = fsi.lru_tail
  /\ LruForward = <<>> => fsi.lru_tail = NULL
  /\ LruBackward = Reverse(LruForward)

\* two items are linked and a third, allocated item is not
C5_Witness ==
  /\ stats.curr_items = 2
  /\ Len(LruForward) = 2
  /\ Items(St) \ Linked # {}

\* C6: after every public operation each chunk is on at most one free
\* list (and once), and a chunk carries FREE exactly when it is reachable
\* from the head of the free list of its class
C6_FreeFlagIffOnFreeList ==
  /\ NoRepeat(LargeFree)
  /\ NoRepeat(SmallFree)
  /\ \A a \in Range(SmallFree) :
       /\ a \in Addrs
       /\ get_parent_chunk(a) \in BrokenChunks
       /\ get_parent_chunk(a) \notin Range(LargeFree)
  /\ \A L \in LargeIdx :
       ("FREE" \in large[L].flags) <=> (L \in Range(LargeFree))
  /\ \A a \in Addrs :
       get_parent_chunk(a) \in BrokenChunks =>
         (("FREE" \in small[a].flags) <=> (a \in Range(SmallFree)))

\* both free lists hold chunks while an item of each class is allocated
C6_Witness ==
  /\ fsi.large_free_list # NULL
  /\ fsi.small_free_list # NULL
  /\ \E it \in Items(St) : ~is_item_large_chunk(St, it)
  /\ fsi.stats.unbreak_events > 0

\* C7: after every public operation large_free_list_sz and
\* small_free_list_sz are the lengths of the two free lists
C7_FreeListSizes ==
  /\ fsi.large_free_list_sz = Len(LargeFree)
  /\ fsi.small_free_list_sz = Len(SmallFree)
  /\ Len(LargeFree) < Fuel
  /\ Len(SmallFree) < Fuel

\* a coalesce has moved a chunk and put a large chunk together again, and
\* both free lists hold chunks afterwards
C7_Witness ==
  /\ fsi.stats.migrates > 0
  /\ fsi.stats.unbreak_events > 0
  /\ fsi.small_free_list_sz > 0
  /\ fsi.large_free_list_sz > 0

\* C8: after every public operation, small_chunks_allocated of every
\* broken large chunk is the number of its small chunks that carry USED,
\* and lies in 0 .. SMALL_CHUNKS_PER_LARGE_CHUNK
C8_SmallChunksAllocated ==
  \A L \in BrokenChunks :
    /\ large[L].small_chunks_allocated = Cardinality(UsedChildren(L))
    /\ large[L].small_chunks_allocated \in 0 .. S

\* a coalesce has moved the chunks of an item out of one broken chunk into
\* another one, which now has used and free small chunks
C8_Witness ==
  /\ fsi.stats.migrates > 0
  /\ \E L \in BrokenChunks :
       large[L].small_chunks_allocated \in 1 .. (S - 1)

\* C9: after every public operation broken_chunk_histogram[k] is the
\* number of broken large chunks with small_chunks_allocated = k, for
\* every k in 0 .. SMALL_CHUNKS_PER_LARGE_CHUNK
C9_BrokenChunkHistogram ==
  \A k \in 0 .. S :
    fsi.stats.broken_chunk_histogram[k] =
      Cardinality({L \in BrokenChunks : large[L].small_chunks_allocated = k})

\* after a coalesce has put one broken chunk together again, the histogram
\* counts the other under the number of its used small chunks
C9_Witness ==
  /\ fsi.stats.migrates > 0
  /\ fsi.stats.unbreak_events > 0
  /\ fsi.stats.large_broken_chunks = 1
  /\ \E k \in 1 .. S : fsi.stats.broken_chunk_histogram[k] = 1

\* C10: in every reachable state break_events - unbreak_events is
\* large_broken_chunks, the number of large chunks that carry BROKEN
C10_BreakUnbreakParity ==
  /\ fsi.stats.break_events - fsi.stats.unbreak_events
       = fsi.stats.large_broken_chunks
  /\ fsi.stats.large_broken_chunks = Cardinality(BrokenChunks)

\* a chunk has been broken, put together and a chunk broken again
C10_Witness ==
  /\ fsi.stats.break_events = MaxBreaks
  /\ fsi.stats.unbreak_events > 0
  /\ fsi.stats.large_broken_chunks > 0

\* the large chunks the region has initialized
InitializedChunks == {L \in LargeIdx : L < fsi.uninitialized_start}

\* C11: after every public operation every initialized chunk (a large
\* chunk, or a small chunk of a broken large chunk) carries exactly one of
\* USED and FREE, and no small chunk of a broken large chunk carries
\* COALESCE_PENDING
C11_FlagExclusivity ==
  /\ \A L \in InitializedChunks :
       /\ "INITIALIZED" \in large[L].flags
       /\ Cardinality(large[L].flags \cap {"USED", "FREE"}) = 1
  /\ \A L \in BrokenChunks : \A i \in 0 .. (S - 1) :
       /\ "INITIALIZED" \in small[Child(L, i)].flags
       /\ Cardinality(small[Child(L, i)].flags \cap {"USED", "FREE"}) = 1
       /\ "COALESCE_PENDING" \notin small[Child(L, i)].flags

\* a coalesce pass has migrated a chunk and formed a large chunk, and a
\* broken large chunk holds used and free small chunks side by side
C11_Witness ==
  /\ fsi.stats.migrates > 0
  /\ fsi.stats.unbreak_events > 0
  /\ \E L \in BrokenChunks :
       /\ \E i \in 0 .. (S - 1) : "USED" \in small[Child(L, i)].flags
       /\ \E i \in 0 .. (S - 1) : "FREE" \in small[Child(L, i)].flags

\* C12: no chunk is leaked or counted twice: the free, title, body and
\* broken large chunks add up to the initialized large chunks, and the
\* free, title and body small chunks add up to the small chunks of the
\* broken large chunks
C12_ChunkConservation ==
  /\ fsi.large_free_list_sz + fsi.stats.large_title_chunks
       + fsi.stats.large_body_chunks + fsi.stats.large_broken_chunks
     = (maxbytes - fsi.unused_memory) \div LARGE_CHUNK_SZ
  /\ fsi.small_free_list_sz + fsi.stats.small_title_chunks
       + fsi.stats.small_body_chunks
     = fsi.stats.large_broken_chunks * SMALL_CHUNKS_PER_LARGE_CHUNK

\* the region is fully initialized, an item has been evicted, a large
\* chunk is free, and a broken chunk holds a small item of two chunks
\* beside a free small chunk
C12_Witness ==
  /\ fsi.unused_memory = 0
  /\ stats.evictions > 0
  /\ fsi.stats.large_broken_chunks > 0
  /\ fsi.stats.small_title_chunks > 0
  /\ fsi.stats.small_body_chunks > 0
  /\ fsi.small_free_list_sz > 0
  /\ fsi.large_free_list_sz > 0

RECURSIVE WalkChunks(_, _, _)
\* the body chunks from c on by next_chunk, as a sequence
WalkChunks(s, c, fuel) ==
  IF c = NULL \/ fuel = 0 THEN <<>>
  ELSE <<c>> \o WalkChunks(s, s.body[c].next_chunk, fuel - 1)

\* the chunk chain of an item: the title, then the bodies
ChunkChain(s, it) == <<it>> \o WalkChunks(s, s.title[it].next_chunk, Fuel)

\* the first n elements of q
Prefix(q, n) == [i \in 1 .. n |-> q[i]]

\* the requests the callers make, and the outcome of each on the current
\* state
Requests == Keys \X ExpTimes \X ValueSizes
AllocOf(q) == do_item_alloc(St, q[1], Len(q[1]), q[2], q[3])

\* the item `it` that a request for (nkey, nbytes) returned in state s is
\* well formed
WellFormedItem(s, it, nkey, nbytes) ==
  LET h == s.title[it]
      chain == ChunkChain(s, it)
      lg == is_large_chunk(nkey, nbytes)
  IN /\ h.refcount = 1
     /\ "VALID" \in h.it_flags
     /\ "LINKED" \notin h.it_flags
     /\ h.next = NULL /\ h.prev = NULL /\ h.h_next = NULL
     /\ h.nkey = nkey /\ h.nbytes = nbytes
     /\ Len(chain) = chunks_needed(nkey, nbytes)
     /\ NoRepeat(chain)
     /\ \A i \in 1 .. Len(chain) :
          LET c == chain[i]
              L == get_parent_chunk(c)
              want == IF i = 1 THEN {"INITIALIZED", "USED", "TITLE"}
                      ELSE {"INITIALIZED", "USED"}
          IN IF lg
             THEN c = LAddr(L) /\ s.large[L].flags = want
             ELSE /\ "BROKEN" \in s.large[L].flags
                  /\ s.small[c].flags = want
     /\ \A i \in 1 .. Len(chain) :
          /\ chain[i] \notin Range(WalkSmall(s, s.fsi.small_free_list, Fuel))
          /\ get_parent_chunk(chain[i])
               \notin Range(WalkLarge(s, s.fsi.large_free_list, Fuel))

\* C13: a successful do_item_alloc returns an item with refcount 1, VALID
\* set, LINKED clear, null next, prev and h_next, whose chain has exactly
\* chunks_needed chunks of one class, all USED, only the first TITLE, none
\* left on a free list, ending in NULL_CHUNKPTR; when the free list of the
\* class held enough chunks at the call, the chain is the head of that
\* list in pop order
C13_AllocReturnsWellFormedItem ==
  \A q \in Requests :
    LET r == AllocOf(q)
        nkey == Len(q[1])
        needed == chunks_needed(nkey, q[3])
    IN r.ret # NULL =>
         /\ r.st.fail = {}
         /\ WellFormedItem(r.st, r.ret, nkey, q[3])
         /\ is_large_chunk(nkey, q[3]) /\ fsi.large_free_list_sz >= needed
              => ChunkChain(r.st, r.ret)
                 = [i \in 1 .. needed |-> LAddr(LargeFree[i])]
         /\ ~is_large_chunk(nkey, q[3]) /\ fsi.small_free_list_sz >= needed
              => ChunkChain(r.st, r.ret) = Prefix(SmallFree, needed)

\* a request for two large chunks succeeds after an eviction, and a
\* request for two small chunks succeeds from the small free list
C13_Witness ==
  /\ \E q \in Requests :
       /\ is_large_chunk(Len(q[1]), q[3])
       /\ chunks_needed(Len(q[1]), q[3]) = 2
       /\ AllocOf(q).ret # NULL
       /\ <<"lru_evict", 0>> \in AllocOf(q).st.evs
  /\ \E q \in Requests :
       /\ ~is_large_chunk(Len(q[1]), q[3])
       /\ chunks_needed(Len(q[1]), q[3]) = 2
       /\ fsi.small_free_list_sz >= 2
       /\ AllocOf(q).ret # NULL

(* ------------------- runs with a long LRU ------------------------------ *)
\* With WindowKeys keys the LRU grows beyond LRU_SEARCH_DEPTH items.  The
\* callers allocate, link, look up, release and unlink.
KeysW == {<<k>> : k \in 1 .. WindowKeys}

AllocW ==
  \E key \in KeysW, nbytes \in ValueSizes, exptime \in ExpTimes :
    Install(do_item_alloc(St, key, Len(key), exptime, nbytes).st)

GetW ==
  \E key \in KeysW : Install(do_item_get_notedeleted(St, key).st)

UnlinkW ==
  \E it \in Items(St) :
    Install(do_item_unlink(St, it, "NORMAL", title[it].key))

NextWindow ==
  \/ AllocW
  \/ Link
  \/ UnlinkW
  \/ Deref
  \/ GetW

SpecWindow == Init /\ [][NextWindow]_vars

RequestsW == KeysW \X ExpTimes \X ValueSizes

\* the items of the LRU from the tail on, at most LRU_SEARCH_DEPTH of them
LruWindow(s) ==
  LET bw == WalkPrev(s, s.fsi.lru_tail, Fuel)
  IN {bw[i] : i \in 1 .. Min(LRU_SEARCH_DEPTH, Len(bw))}

\* C14: for a size-valid request do_item_alloc returns NULL only when, at
\* its return, the free list of the item's class holds fewer chunks than
\* needed, the region cannot grow, and none of the LRU_SEARCH_DEPTH items
\* nearest the LRU tail has refcount 0
C14_AllocFailsOnlyWhenExhausted ==
  \A q \in RequestsW :
    LET r == AllocOf(q)
        nkey == Len(q[1])
        needed == chunks_needed(nkey, q[3])
    IN item_size_ok(nkey, q[3]) /\ r.ret = NULL =>
         /\ IF is_large_chunk(nkey, q[3])
            THEN r.st.fsi.large_free_list_sz < needed
            ELSE r.st.fsi.small_free_list_sz < needed
         /\ r.st.fsi.unused_memory < FLAT_STORAGE_INCREMENT_DELTA
         /\ \A it \in LruWindow(r.st) : r.st.title[it].refcount # 0

\* an allocation fails although a linked item has refcount 0: the item is
\* farther from the LRU tail than LRU_SEARCH_DEPTH
C14_Witness ==
  /\ \E q \in RequestsW : AllocOf(q).ret = NULL
  /\ Len(LruBackward) > LRU_SEARCH_DEPTH
  /\ \E it \in Linked : title[it].refcount = 0

\* a key longer than KEY_MAX_LENGTH, and value lengths above MAX_ITEM_SIZE:
\* one that fits an int, and one size_t whose low bits are a small int
LongKey == [i \in 1 .. (KEY_MAX_LENGTH + 1) |-> 1]
OversizeSizes == {MAX_ITEM_SIZE + 1, 2 * (INT_MAX + 1) + 1}

\* the engine state of s and t is the same
SameEngine(s, t) ==
  /\ s.fsi = t.fsi /\ s.large = t.large /\ s.small = t.small
  /\ s.title = t.title /\ s.body = t.body /\ s.assoc = t.assoc
  /\ s.stats = t.stats

\* C15: do_item_alloc with nkey > KEY_MAX_LENGTH or nbytes > MAX_ITEM_SIZE
\* returns NULL and leaves the engine state unchanged
C15_OversizeRequestRefused ==
  \A key \in Keys \cup {LongKey}, nbytes \in ValueSizes \cup OversizeSizes :
    Len(key) > KEY_MAX_LENGTH \/ nbytes > MAX_ITEM_SIZE =>
      LET r == do_item_alloc(St, key, Len(key), 0, nbytes)
      IN r.ret = NULL /\ SameEngine(r.st, St)

\* the same for the oversize requests whose nbytes fits an int
C15_OversizeWithinInt ==
  \A key \in Keys \cup {LongKey}, nbytes \in ValueSizes \cup OversizeSizes :
    /\ Len(key) > KEY_MAX_LENGTH \/ nbytes > MAX_ITEM_SIZE
    /\ nbytes <= INT_MAX
    => LET r == do_item_alloc(St, key, Len(key), 0, nbytes)
       IN r.ret = NULL /\ SameEngine(r.st, St)

(* ------------------- runs with expiry times ---------------------------- *)
\* The callers store items with and without an expiry time, and the clock
\* reaches the expiry time.
ExpTimesX == {0, 1}

AllocX ==
  \E key \in Keys, nbytes \in ValueSizes, exptime \in ExpTimesX :
    Install(do_item_alloc(St, key, Len(key), exptime, nbytes).st)

UnlinkX ==
  \E it \in Items(St) :
    Install(do_item_unlink(St, it, "NORMAL", title[it].key))

NextExpiry ==
  \/ AllocX
  \/ Link
  \/ UnlinkX
  \/ Deref
  \/ Replace
  \/ Get
  \/ SetOldestLive
  \/ Tick

SpecExpiry == Init /\ [][NextExpiry]_vars

LinkedIn(s) == {it \in Items(s) : "LINKED" \in s.title[it].it_flags}

\* the cache is full of unreferenced linked items of the class and the
\* chunk count of the request q
FullOf(q) ==
  /\ fsi.unused_memory < FLAT_STORAGE_INCREMENT_DELTA
  /\ fsi.large_free_list_sz = 0
  /\ fsi.small_free_list_sz = 0
  /\ Items(St) # {}
  /\ \A it \in Items(St) :
       /\ "LINKED" \in title[it].it_flags
       /\ title[it].refcount = 0
       /\ is_item_large_chunk(St, it) = is_large_chunk(Len(q[1]), q[3])
       /\ chunks_in_item(St, it) = chunks_needed(Len(q[1]), q[3])

\* the item has an expiry time and the clock has reached it
Expired(it) == title[it].exptime # 0 /\ title[it].exptime <= current_time

\* every eviction of the allocation for q took the unreferenced item
\* nearest to the LRU tail
EvictsInLruOrder(q) ==
  \A e \in AllocOf(q).st.evs : e[1] = "evict_order" => e[2] = e[3]

\* the allocation for q succeeds and unlinks the LRU tail and nothing else
EvictsTailOnly(q) ==
  /\ AllocOf(q).ret # NULL
  /\ LinkedIn(AllocOf(q).st) = Linked \ {fsi.lru_tail}
  /\ AllocOf(q).st.stats.curr_items = stats.curr_items - 1

\* C16 as stated: every item do_item_alloc evicts is the unreferenced
\* linked item nearest to lru_tail, and on a cache full of unreferenced
\* linked items of the request's class and chunk count exactly the LRU tail
\* is unlinked, evictions grows by exactly 1 and the allocation succeeds
C16_EvictionFollowsLru ==
  \A q \in Requests :
    /\ EvictsInLruOrder(q)
    /\ FullOf(q) =>
         /\ EvictsTailOnly(q)
         /\ AllocOf(q).st.stats.evictions = stats.evictions + 1

\* C16, amended: the same, but evictions grows by 1 only when the LRU tail
\* has not expired; an expired tail is unlinked as an expiry and leaves
\* evictions as it was
C16_EvictionFollowsLruExpiry ==
  \A q \in Requests :
    /\ EvictsInLruOrder(q)
    /\ FullOf(q) =>
         /\ EvictsTailOnly(q)
         /\ AllocOf(q).st.stats.evictions
            = stats.evictions + (IF Expired(fsi.lru_tail) THEN 0 ELSE 1)

\* the cache is full of two unreferenced linked items, the LRU tail has
\* expired and the other item has not
C16_Witness ==
  /\ \E q \in Requests : FullOf(q)
  /\ Len(LruBackward) = 2
  /\ Expired(fsi.lru_tail)
  /\ ~Expired(fsi.lru_head)

\* the pairs replace is called with: a linked item and an unlinked item
\* under the same key
ReplacePairs ==
  {p \in Items(St) \X Items(St) :
     /\ "LINKED" \in title[p[1]].it_flags
     /\ "LINKED" \notin title[p[2]].it_flags
     /\ title[p[1]].key = title[p[2]].key}

ReplaceOf(p) == do_item_replace(St, p[1], p[2], title[p[1]].key)
GetAfterReplace(p) == do_item_get_notedeleted(ReplaceOf(p), title[p[1]].key)

\* every chunk the item `it` has now is free in state s
FreedIn(s, it) ==
  /\ ~IsItem(s, it)
  /\ \A c \in ChunksOf(St, it) :
       \/ c \in Range(WalkSmall(s, s.fsi.small_free_list, Fuel))
       \/ get_parent_chunk(c)
            \in Range(WalkLarge(s, s.fsi.large_free_list, Fuel))

\* get turns the item `it` away in state s: it has expired, or it falls
\* under the flush barrier
TurnedAway(s, it) ==
  \/ s.title[it].exptime # 0 /\ s.title[it].exptime <= s.current_time
  \/ /\ s.settings.oldest_live # 0
     /\ s.settings.oldest_live <= s.current_time
     /\ s.title[it].time <= s.settings.oldest_live

\* C17 as stated: after link(a) under key k and replace(a, b, k), get(k)
\* returns b and a is freed, its chunks back on the free lists
C17_ReplaceThenGet ==
  \A p \in ReplacePairs :
    /\ GetAfterReplace(p).ret = p[2]
    /\ FreedIn(ReplaceOf(p), p[1])

\* C17, amended: after replace(a, b, k) the table holds b under k and a is
\* unlinked; get(k) returns b, with one more reference, unless b has
\* expired or falls under the flush barrier, and then it returns NULL; a is
\* freed by the replace when its refcount is 0, and otherwise stays
\* allocated until the deref of its last reference
C17_ReplaceThenGetUnlessStale ==
  \A p \in ReplacePairs :
    LET a == p[1]
        b == p[2]
        s1 == ReplaceOf(p)
        g == GetAfterReplace(p)
    IN /\ s1.fail = {}
       /\ assoc_find(s1, title[a].key) = b
       /\ "LINKED" \in s1.title[b].it_flags
       /\ IF TurnedAway(s1, b)
          THEN g.ret = NULL
          ELSE /\ g.ret = b
               /\ g.st.title[b].refcount = title[b].refcount + 1
       /\ IF title[a].refcount = 0
          THEN FreedIn(s1, a)
          ELSE /\ IsItem(s1, a)
               /\ "LINKED" \notin s1.title[a].it_flags
               /\ s1.title[a].refcount = title[a].refcount
               /\ title[a].refcount = 1 => FreedIn(do_item_deref(s1, a), a)

\* replace frees an unreferenced item of two chunks and the next get
\* returns the new item
C17_Witness ==
  /\ \E p \in ReplacePairs :
       /\ Cardinality(ChunksOf(St, p[1])) = 2
       /\ title[p[1]].refcount = 0
       /\ FreedIn(ReplaceOf(p), p[1])
       /\ GetAfterReplace(p).ret = p[2]

\* unlink of the item `it` with the flags f, and a second unlink of the
\* same item with the flags g
UnlinkOnce(it, f) == do_item_unlink(St, it, f, title[it].key)
UnlinkTwice(it, f, g) ==
  do_item_unlink(UnlinkOnce(it, f), it, g, title[it].key)

\* the second unlink fails no assertion, finds the item still allocated
\* and changes nothing
SecondUnlinkIdle(it, f, g) ==
  /\ UnlinkTwice(it, f, g).fail = {}
  /\ IsItem(UnlinkOnce(it, f), it)
  /\ SameEngine(UnlinkOnce(it, f), UnlinkTwice(it, f, g))

\* C18 as stated: unlink twice on the same item is safe and idempotent,
\* whatever item it is
C18_UnlinkTwice ==
  \A it \in Items(St), f \in UnlinkFlags, g \in UnlinkFlags :
    SecondUnlinkIdle(it, f, g)

\* C18, amended: unlink twice on an item the caller holds a reference to
\* (refcount > 0) is safe and idempotent
C18_UnlinkTwiceReferenced ==
  \A it \in Items(St), f \in UnlinkFlags, g \in UnlinkFlags :
    title[it].refcount > 0 => SecondUnlinkIdle(it, f, g)

\* a linked item with a reference: the first unlink takes it out of the
\* table and the counters, the second finds nothing to do
C18_Witness ==
  \E it \in Linked :
    /\ title[it].refcount > 0
    /\ UnlinkOnce(it, "IS_EVICT").stats.curr_items = stats.curr_items - 1
    /\ UnlinkOnce(it, "IS_EVICT").stats.evictions = stats.evictions + 1
    /\ SecondUnlinkIdle(it, "IS_EVICT", "IS_EVICT")

DerefOf(it) == do_item_deref(St, it)

\* C19: do_item_deref decrements refcount by one and frees the item in the
\* same call exactly when the refcount reaches 0 and the item is not
\* LINKED; a LINKED item whose refcount reaches 0 stays allocated, linked
\* and findable; deref after unlink is tolerated; deref at refcount 0
\* leaves the refcount at 0
C19_DerefReleasesLastReference ==
  \A it \in Items(St) :
    LET rc == title[it].refcount
        left == IF rc > 0 THEN rc - 1 ELSE 0
        lk == "LINKED" \in title[it].it_flags
    IN /\ DerefOf(it).fail = {}
       /\ FreedIn(DerefOf(it), it) <=> (left = 0 /\ ~lk)
       /\ ~(left = 0 /\ ~lk) =>
            /\ IsItem(DerefOf(it), it)
            /\ DerefOf(it).title[it] = [title[it] EXCEPT !.refcount = left]
            /\ SameEngine([DerefOf(it) EXCEPT !.title[it].refcount = rc], St)
       /\ lk => /\ assoc_find(DerefOf(it), title[it].key) = it
                /\ it \in Range(WalkNext(DerefOf(it),
                                         DerefOf(it).fsi.lru_head, Fuel))

\* one item is linked with a single reference and stays after its deref,
\* another is unlinked with a single reference and is freed by its deref,
\* and deref of an unreferenced linked item changes nothing
C19_Witness ==
  /\ \E it \in Linked :
       /\ title[it].refcount = 1
       /\ IsItem(DerefOf(it), it)
       /\ DerefOf(it).title[it].refcount = 0
       /\ SameEngine(do_item_deref(DerefOf(it), it), DerefOf(it))
  /\ \E it \in Items(St) \ Linked :
       title[it].refcount = 1 /\ FreedIn(DerefOf(it), it)

GetOf(key) == do_item_get_notedeleted(St, key)

\* get(key) turned the found item f away: NULL, the item unlinked as an
\* expiration, no reference taken
GetExpires(key, f) ==
  /\ GetOf(key).ret = NULL
  /\ GetOf(key).st.fail = {}
  /\ <<"expire">> \in GetOf(key).st.evs
  /\ <<"evict">> \notin GetOf(key).st.evs
  /\ GetOf(key).st.stats.evictions = stats.evictions
  /\ GetOf(key).st.stats.curr_items = stats.curr_items - 1
  /\ assoc_find(GetOf(key).st, key) = NULL
  /\ IF title[f].refcount = 0 THEN FreedIn(GetOf(key).st, f)
     ELSE GetOf(key).st.title[f]
          = [title[f] EXCEPT !.it_flags = @ \ {"LINKED"}, !.h_next = NULL,
                             !.next = NULL, !.prev = NULL]

\* get(key) returned the found item f with one more reference and changed
\* nothing else
GetTakes(key, f) ==
  /\ GetOf(key).ret = f
  /\ GetOf(key).st.fail = {}
  /\ GetOf(key).st.title[f].refcount = title[f].refcount + 1
  /\ SameEngine([GetOf(key).st EXCEPT !.title[f].refcount = @ - 1], St)

\* C20: get on a key whose item is past its exptime, or under the flush
\* barrier, returns NULL, unlinks the item as an expiration (evictions
\* unchanged, curr_items one less) and takes no reference; on any other
\* found item it returns the item with refcount one more
C20_GetExpiresOrTakes ==
  \A key \in Keys :
    LET f == assoc_find(St, key)
    IN IF f = NULL
       THEN GetOf(key).ret = NULL /\ SameEngine(GetOf(key).st, St)
       ELSE IF TurnedAway(St, f) THEN GetExpires(key, f)
       ELSE GetTakes(key, f)

\* one key holds an item past its exptime that the caller still
\* references, the other a live item: get expires the first and returns
\* the second
C20_Witness ==
  \E k1 \in Keys, k2 \in Keys :
    /\ assoc_find(St, k1) # NULL
    /\ Expired(assoc_find(St, k1))
    /\ title[assoc_find(St, k1)].refcount > 0
    /\ GetExpires(k1, assoc_find(St, k1))
    /\ assoc_find(St, k2) # NULL
    /\ ~TurnedAway(St, assoc_find(St, k2))
    /\ GetTakes(k2, assoc_find(St, k2))

(* ------------------- runs with deferred deletes ------------------------ *)
\* A delete with a delay: the caller, holding a reference to a linked item,
\* flags it DELETED and stores the end of the delete lock, a time after
\* now, in exptime.  The item stays linked until the lock is over.
DeleteDelays == {1}

DeferDelete ==
  \E it \in Items(St), d \in DeleteDelays :
    /\ "LINKED" \in title[it].it_flags
    /\ "DELETED" \notin title[it].it_flags
    /\ title[it].refcount > 0
    /\ Install([St EXCEPT !.title[it].it_flags = @ \cup {"DELETED"},
                          !.title[it].exptime = current_time + d])

\* the reference of the deferred delete is kept while the item is flagged
DerefUnflagged ==
  \E it \in Items(St) :
    /\ "DELETED" \notin title[it].it_flags \/ title[it].refcount > 1
    /\ Install(do_item_deref(St, it))

NextDeleteLock ==
  \/ Alloc
  \/ Link
  \/ DeferDelete
  \/ DerefUnflagged
  \/ Get
  \/ Tick

SpecDeleteLock == Init /\ [][NextDeleteLock]_vars

\* the key maps to an item flagged DELETED whose delete lock is not over
DeleteLocked(key) ==
  /\ assoc_find(St, key) # NULL
  /\ "DELETED" \in title[assoc_find(St, key)].it_flags
  /\ current_time < title[assoc_find(St, key)].exptime

TickLate ==
  /\ current_time < MaxTime + ITEM_UPDATE_INTERVAL
  /\ Install([St EXCEPT !.current_time = @ + 1])

NextClock ==
  \/ Alloc
  \/ Link
  \/ Update
  \/ TickLate

SpecClock == Init /\ [][NextClock]_vars

UpdateOf(it) == do_item_update(St, it)

\* more than ITEM_UPDATE_INTERVAL has passed since the item's time
Due(it) == current_time - title[it].time > ITEM_UPDATE_INTERVAL

\* the update moved the item to the LRU head, kept the order of the other
\* items and set the item's time
MovedToHead(it) ==
  /\ UpdateOf(it).fail = {}
  /\ UpdateOf(it).fsi.lru_head = it
  /\ UpdateOf(it).title[it].time = current_time
  /\ WalkNext(UpdateOf(it), UpdateOf(it).fsi.lru_head, Fuel)
       = <<it>> \o SelectSeq(LruForward, LAMBDA x : x # it)

UpdateAsStated(it) ==
  IF "LINKED" \in title[it].it_flags /\ Due(it)
  THEN MovedToHead(it)
  ELSE SameEngine(UpdateOf(it), St)

\* C22: item_update moves a linked item to the LRU head and sets its time
\* to current_time exactly when current_time - time > ITEM_UPDATE_INTERVAL;
\* otherwise, at every moment with current_time < ITEM_UPDATE_INTERVAL
\* included, and on every item that is not linked, it changes nothing
C22_UpdateRateLimited == \A it \in Items(St) : UpdateAsStated(it)

\* the same from the moment the clock has reached ITEM_UPDATE_INTERVAL
C22_UpdateAfterInterval ==
  \A it \in Items(St) :
    current_time >= ITEM_UPDATE_INTERVAL => UpdateAsStated(it)

\* a linked item that is due and not at the LRU head
C22_DueItem ==
  \E it \in Linked : Due(it) /\ fsi.lru_head # it /\ MovedToHead(it)

\* the change of stats.evictions an unlink with `flags` is to make on the
\* linked item `it`
EvictionsDue(it, flags) ==
  IF flags = "IS_EVICT" THEN 1
  ELSE IF flags = "MAYBE_EVICT"
          /\ (title[it].exptime = 0 \/ title[it].exptime > current_time)
  THEN 1
  ELSE 0

\* C23: unlink with MAYBE_EVICT on a linked item counts as an eviction
\* exactly when exptime == 0 or exptime > current_time and as an expiration
\* otherwise; NORMAL and IS_EXPIRED never increment evictions; in every case
\* curr_items goes down by 1 and item_total_size by nkey + nbytes
C23_UnlinkAccounting ==
  \A it \in Linked, flags \in UnlinkFlags :
    /\ UnlinkOnce(it, flags).fail = {}
    /\ UnlinkOnce(it, flags).stats.evictions
         = stats.evictions + EvictionsDue(it, flags)
    /\ (<<"evict">> \in UnlinkOnce(it, flags).evs)
         <=> (EvictionsDue(it, flags) = 1)
    /\ (<<"expire">> \in UnlinkOnce(it, flags).evs)
         <=> (EvictionsDue(it, flags) = 0 /\ flags # "NORMAL")
    /\ UnlinkOnce(it, flags).stats.curr_items = stats.curr_items - 1
    /\ UnlinkOnce(it, flags).stats.item_total_size
         = stats.item_total_size - (title[it].nkey + title[it].nbytes)

\* two linked items, one without expiry time and one that has expired:
\* MAYBE_EVICT is an eviction of the first and an expiration of the
\* second
C23_Witness ==
  \E a \in Linked, b \in Linked :
    /\ title[a].exptime = 0 /\ EvictionsDue(a, "MAYBE_EVICT") = 1
    /\ UnlinkOnce(a, "MAYBE_EVICT").stats.evictions = stats.evictions + 1
    /\ Expired(b) /\ EvictionsDue(b, "MAYBE_EVICT") = 0
    /\ UnlinkOnce(b, "MAYBE_EVICT").stats.evictions = stats.evictions
    /\ UnlinkOnce(b, "MAYBE_EVICT").stats.curr_items = stats.curr_items - 1

GrowOf == flat_storage_alloc(St)

\* the large chunks one increment adds, the last one first
NewChunks ==
  [i \in 1 .. (FLAT_STORAGE_INCREMENT_DELTA \div LARGE_CHUNK_SZ) |->
     fsi.uninitialized_start
       + (FLAT_STORAGE_INCREMENT_DELTA \div LARGE_CHUNK_SZ) - i]

\* flat_storage_alloc committed one increment: the new chunks are on top of
\* the large free list and nothing else changed
Grown ==
  /\ GrowOf.ret
  /\ GrowOf.st.fail = {}
  /\ GrowOf.st.fsi.unused_memory
       = fsi.unused_memory - FLAT_STORAGE_INCREMENT_DELTA
  /\ GrowOf.st.fsi.uninitialized_start
       = fsi.uninitialized_start
           + (FLAT_STORAGE_INCREMENT_DELTA \div LARGE_CHUNK_SZ)
  /\ GrowOf.st.fsi.large_free_list_sz
       = fsi.large_free_list_sz
           + (FLAT_STORAGE_INCREMENT_DELTA \div LARGE_CHUNK_SZ)
  /\ WalkLarge(GrowOf.st, GrowOf.st.fsi.large_free_list, Fuel)
       = NewChunks \o LargeFree
  /\ \A L \in Range(NewChunks) :
       GrowOf.st.large[L].flags = {"INITIALIZED", "FREE"}
  /\ \A L \in LargeIdx \ Range(NewChunks) : GrowOf.st.large[L] = large[L]
  /\ GrowOf.st.fsi
       = [fsi EXCEPT !.unused_memory = GrowOf.st.fsi.unused_memory,
                     !.uninitialized_start = GrowOf.st.fsi.uninitialized_start,
                     !.large_free_list = GrowOf.st.fsi.large_free_list,
                     !.large_free_list_sz = GrowOf.st.fsi.large_free_list_sz]
  /\ GrowOf.st.small = small /\ GrowOf.st.title = title
  /\ GrowOf.st.body = body /\ GrowOf.st.assoc = assoc
  /\ GrowOf.st.stats = stats

\* the state flat_storage_init leaves: one increment committed, the LRU and
\* the small free list empty
AfterInit ==
  /\ flat_storage_init.fail = {}
  /\ flat_storage_init.fsi.unused_memory
       = maxbytes - FLAT_STORAGE_INCREMENT_DELTA
  /\ flat_storage_init.fsi.large_free_list_sz
       = FLAT_STORAGE_INCREMENT_DELTA \div LARGE_CHUNK_SZ
  /\ flat_storage_init.fsi.uninitialized_start
       = 1 + (FLAT_STORAGE_INCREMENT_DELTA \div LARGE_CHUNK_SZ)
  /\ flat_storage_init.fsi.lru_head = NULL
  /\ flat_storage_init.fsi.lru_tail = NULL
  /\ flat_storage_init.fsi.small_free_list = NULL
  /\ flat_storage_init.fsi.small_free_list_sz = 0

\* C24: flat_storage_alloc commits exactly one increment, its large chunks
\* pushed onto the large free list, when unused_memory >=
\* FLAT_STORAGE_INCREMENT_DELTA, and returns false changing nothing
\* otherwise; unused_memory plus the initialized large chunks make up
\* maxbytes, unused_memory >= 0; after init one increment is committed and
\* the LRU and the small free list are empty
C24_RegionWithinBudget ==
  /\ IF fsi.unused_memory >= FLAT_STORAGE_INCREMENT_DELTA THEN Grown
     ELSE ~GrowOf.ret /\ GrowOf.st = St
  /\ fsi.unused_memory + Cardinality(InitializedChunks) * LARGE_CHUNK_SZ
       = maxbytes
  /\ fsi.unused_memory >= 0
  /\ \A L \in LargeIdx :
       L \in InitializedChunks <=> "INITIALIZED" \in large[L].flags
  /\ AfterInit

\* the cache holds a linked item, the region can still grow, and
\* flat_storage_alloc grows it
C24_Witness ==
  /\ Linked # {}
  /\ fsi.unused_memory >= FLAT_STORAGE_INCREMENT_DELTA
  /\ Grown

CoalesceOf == coalesce_free_small_chunks(St)

\* the number of times the loop of the pass went round to its end
Rounds == CoalesceOf.st.fsi.stats.unbreak_events - fsi.stats.unbreak_events

\* C25: coalesce_free_small_chunks terminates: every round of its loop
\* either returns for want of an unreferenced donor or takes exactly
\* SMALL_CHUNKS_PER_LARGE_CHUNK chunks off the small free list, so there
\* are at most small_free_list_sz / SMALL_CHUNKS_PER_LARGE_CHUNK rounds; it
\* returns NO_PROGRESS exactly when it formed no large chunk
C25_CoalesceTerminates ==
  /\ CoalesceOf.st.fail = {}
  /\ Rounds >= 0
  /\ Rounds <= fsi.small_free_list_sz \div S
  /\ CoalesceOf.st.fsi.small_free_list_sz
       = fsi.small_free_list_sz - Rounds * S
  /\ Len(WalkSmall(CoalesceOf.st, CoalesceOf.st.fsi.small_free_list, Fuel))
       = Len(SmallFree) - Rounds * S
  /\ Cardinality({e \in CoalesceOf.st.evs : e[1] = "unbreak"}) = Rounds
  /\ CoalesceOf.st.fsi.large_free_list_sz
       = fsi.large_free_list_sz + Rounds
  /\ (CoalesceOf.ret = "NO_PROGRESS") <=> (Rounds = 0)
  /\ CoalesceOf.ret \in {"NO_PROGRESS", "LARGE_CHUNK_FORMED"}
  /\ \/ CoalesceOf.st.fsi.small_free_list_sz < S
     \/ find_unreferenced_broken_chunk(CoalesceOf.st, 0) = NULL

\* the small free list holds enough chunks for a second round, and the
\* pass stops after one round that migrated a chunk
C25_Witness ==
  /\ fsi.small_free_list_sz > S
  /\ Rounds = 1
  /\ CoalesceOf.ret = "LARGE_CHUNK_FORMED"
  /\ \E e \in CoalesceOf.st.evs : e[1] = "migrate"

(* ------------------- runs with one-chunk items ------------------------- *)
\* The callers store a value of two small chunks under the first key and a
\* value short enough for a single small chunk under the second, so that
\* the small chunks of a broken large chunk belong to several items.
ShortRequests == {<<(<<1>>), 3>>, <<(<<2>>), 1>>}

AllocShort ==
  \E q \in ShortRequests :
    Install(do_item_alloc(St, q[1], Len(q[1]), 0, q[2]).st)

NextShort ==
  \/ AllocShort
  \/ Link
  \/ UnlinkX
  \/ Deref

SpecShort == Init /\ [][NextShort]_vars

\* the observations AllocOf(q) made at the moments of its evictions
EvictMoments(q) == {e \in AllocOf(q).st.evs : e[1] = "evict_moment"}

\* C26: eviction is the last resort of do_item_alloc: at the moment of an
\* eviction the region cannot grow; for a small-class request the large
\* free list is empty; for a large-class request with large_free *
\* SMALL_CHUNKS_PER_LARGE_CHUNK + small_free >= needed *
\* SMALL_CHUNKS_PER_LARGE_CHUNK a coalesce has been attempted, and another
\* pass would form no large chunk
C26_EvictionIsLastResort ==
  \A q \in Requests : \A e \in EvictMoments(q) :
    /\ e[4] < FLAT_STORAGE_INCREMENT_DELTA
    /\ e[2] = "SMALL" => e[5] = 0
    /\ e[2] = "LARGE" /\ e[5] * S + e[6] >= e[3] * S =>
         e[7] /\ e[8] = "NO_PROGRESS"

\* a large-class request on a cache with enough free small chunks for it,
\* all of them in large chunks with a referenced child: the coalesce pass
\* forms nothing and an item is evicted
C26_Witness ==
  \E q \in Requests : \E e \in EvictMoments(q) :
    /\ e[2] = "LARGE"
    /\ e[5] * S + e[6] >= e[3] * S
    /\ e[7] /\ e[8] = "NO_PROGRESS"
    /\ e[4] < FLAT_STORAGE_INCREMENT_DELTA

Referenced == {it \in Items(St) : title[it].refcount > 0}

\* the chunks that are free or belong to an item with refcount 0
Unreferenced ==
  Range(SmallFree)
  \cup UNION {ChunksOf(St, it) : it \in Items(St) \ Referenced}

\* in state s the item `it` is where it is now: title and body chunks at
\* the same addresses, with the same key, length and refcount
StaysPut(s, it) ==
  /\ IsItem(s, it)
  /\ ChunkChain(s, it) = ChunkChain(St, it)
  /\ s.title[it].key = title[it].key
  /\ s.title[it].nbytes = title[it].nbytes
  /\ s.title[it].refcount = title[it].refcount
  /\ s.title[it].it_flags = title[it].it_flags

\* the chunks the operation that led to s migrated, and the large chunks
\* it formed
MigratedIn(s) == {e[2] : e \in {x \in s.evs : x[1] = "migrate"}}
FormedIn(s) == {e[2] : e \in {x \in s.evs : x[1] = "unbreak"}}

\* C27: coalescing never relocates a chunk of a referenced item: every
\* child of a donor is free or belongs to an item with refcount 0, and an
\* item with refcount > 0 has its title and its body chunks at the same
\* addresses after a coalesce pass and after an alloc, with its evictions
\* and coalesce passes, for another item
C27_ReferencedItemsStayPut ==
  /\ CoalesceOf.st.fail = {}
  /\ \A L \in FormedIn(CoalesceOf.st) : \A i \in 0 .. (S - 1) :
       Child(L, i) \in Unreferenced
  /\ MigratedIn(CoalesceOf.st) \subseteq Unreferenced
  /\ \A it \in Referenced : StaysPut(CoalesceOf.st, it)
  /\ \A q \in Requests :
       /\ MigratedIn(AllocOf(q).st) \subseteq Unreferenced
       /\ \A it \in Referenced : StaysPut(AllocOf(q).st, it)

\* a broken large chunk holds a referenced item, another holds an
\* unreferenced one; the coalesce pass migrates the unreferenced item into
\* the large chunk of the referenced one
C27_Witness ==
  \E it \in Referenced :
    /\ ~is_item_large_chunk(St, it)
    /\ CoalesceOf.ret = "LARGE_CHUNK_FORMED"
    /\ MigratedIn(CoalesceOf.st) # {}
    /\ get_parent_chunk(it) \notin FormedIn(CoalesceOf.st)
    /\ StaysPut(CoalesceOf.st, it)

\* The bytes of a chunk beside its links are memory the pass copies and
\* does not read.  They are painted with the address the chunk has now, so
\* that a copy can be told by its paint.
Painted ==
  [St EXCEPT
     !.title = [a \in Addrs |-> [data |-> a] @@ title[a]],
     !.body = [a \in Addrs |-> [data |-> a] @@ body[a]]]

PassOf == coalesce_free_small_chunks(Painted).st

\* what an item holds, wherever its chunks are: the header fields that are
\* not links, and the painted bytes along its chunk chain
Held(s, it) ==
  [key |-> s.title[it].key, nkey |-> s.title[it].nkey,
   nbytes |-> s.title[it].nbytes, exptime |-> s.title[it].exptime,
   time |-> s.title[it].time, refcount |-> s.title[it].refcount,
   it_flags |-> s.title[it].it_flags,
   payload |-> [i \in 1 .. Len(ChunkChain(s, it)) |->
                  IF i = 1 THEN s.title[it].data
                  ELSE s.body[ChunkChain(s, it)[i]].data]]

HeldAlong(s, q) == [i \in 1 .. Len(q) |-> Held(s, q[i])]

\* the small chunks of the large chunks the pass formed
DonorChunks == {Child(L, i) : L \in FormedIn(PassOf), i \in 0 .. (S - 1)}

\* every link of the engine in state s
LinksIn(s) ==
  {s.fsi.lru_head, s.fsi.lru_tail, s.fsi.small_free_list, s.assoc}
  \cup UNION {{s.title[a].h_next, s.title[a].next, s.title[a].prev,
               s.title[a].next_chunk, s.body[a].next_chunk,
               s.body[a].prev_chunk, s.small[a].next,
               s.small[a].prev_next} : a \in Addrs}

\* C28: a coalesce pass changes where small chunks live and not what the
\* cache holds: the linked items in LRU order, their header fields and the
\* payloads along their chunk chains are the same; every small body chunk's
\* prev_chunk is its predecessor in the chain; lru_head and lru_tail are
\* the ends of the same LRU at its new addresses; the hash chain holds the
\* same items at their new addresses; no link points into a donor
C28_CoalesceKeepsContents ==
  /\ PassOf.fail = {}
  /\ LinksIn(PassOf) \cap DonorChunks = {}
  /\ HeldAlong(PassOf, WalkNext(PassOf, PassOf.fsi.lru_head, Fuel))
       = HeldAlong(Painted, LruForward)
  /\ WalkPrev(PassOf, PassOf.fsi.lru_tail, Fuel)
       = Reverse(WalkNext(PassOf, PassOf.fsi.lru_head, Fuel))
  /\ Range(WalkNext(PassOf, PassOf.fsi.lru_head, Fuel))
       = LinkedIn(PassOf)
  /\ Cardinality(Items(PassOf)) = Cardinality(Items(St))
  /\ \A it \in Items(PassOf) :
       ~is_item_large_chunk(PassOf, it) =>
         \A i \in 2 .. Len(ChunkChain(PassOf, it)) :
           PassOf.body[ChunkChain(PassOf, it)[i]].prev_chunk
             = ChunkChain(PassOf, it)[i - 1]
  /\ HeldAlong(PassOf, WalkHash(PassOf, PassOf.assoc, Fuel))
       = HeldAlong(Painted, AssocChain)
  /\ \A key \in Keys :
       IF assoc_find(St, key) = NULL THEN assoc_find(PassOf, key) = NULL
       ELSE /\ assoc_find(PassOf, key) \in LinkedIn(PassOf)
            /\ Held(PassOf, assoc_find(PassOf, key))
                 = Held(Painted, assoc_find(St, key))

\* the LRU holds two items of the small class, one of them with a body
\* chunk; the pass migrates the LRU head and a body chunk
C28_Witness ==
  /\ Len(LruForward) = 2
  /\ fsi.lru_head \in MigratedIn(PassOf)
  /\ PassOf.fsi.lru_head # fsi.lru_head
  /\ \E c \in MigratedIn(PassOf) : "TITLE" \notin small[c].flags
  /\ PassOf.assoc # assoc

\* the broken large chunks with a free child and no referenced child
Donors ==
  {L \in BrokenChunks :
     /\ \E i \in 0 .. (S - 1) : "FREE" \in small[Child(L, i)].flags
     /\ ~large_broken_chunk_referenced(St, L)}

\* the moves of the pass: <<old chunk, replacement>>
MovesOf(s) == {<<e[2], e[3]>> : e \in {x \in s.evs : x[1] = "migrate"}}

\* C29: with small_free_list_sz >= SMALL_CHUNKS_PER_LARGE_CHUNK and a
\* broken large chunk that has a free child and no referenced child, the
\* pass forms a large chunk; each donor adds 1 to large_free_list_sz and to
\* unbreak_events, takes SMALL_CHUNKS_PER_LARGE_CHUNK off
\* small_free_list_sz and adds its small_chunks_allocated to migrates; the
\* free capacity is unchanged; every live child gets a replacement, which
\* is never a chunk of its donor
C29_CoalesceForms ==
  /\ CoalesceOf.st.fail = {}
  /\ fsi.small_free_list_sz >= S /\ Donors # {} =>
       CoalesceOf.ret = "LARGE_CHUNK_FORMED" /\ Rounds >= 1
  /\ Rounds >= 1 => FormedIn(CoalesceOf.st) \cap Donors # {}
  /\ CoalesceOf.st.fsi.large_free_list_sz = fsi.large_free_list_sz + Rounds
  /\ CoalesceOf.st.fsi.small_free_list_sz
       = fsi.small_free_list_sz - Rounds * S
  /\ Cardinality(FormedIn(CoalesceOf.st)) = Rounds
  /\ CoalesceOf.st.fsi.stats.migrates
       = fsi.stats.migrates + Cardinality(MovesOf(CoalesceOf.st))
  /\ Rounds = 1 =>
       \A L \in FormedIn(CoalesceOf.st) :
         /\ Cardinality(MovesOf(CoalesceOf.st))
              = large[L].small_chunks_allocated
         /\ {m[1] : m \in MovesOf(CoalesceOf.st)}
              = {Child(L, i) : i \in UsedChildren(L)}
  /\ CoalesceOf.st.fsi.large_free_list_sz * S
       + CoalesceOf.st.fsi.small_free_list_sz
       = fsi.large_free_list_sz * S + fsi.small_free_list_sz
  /\ \A m \in MovesOf(CoalesceOf.st) :
       /\ m[2] # NULL
       /\ get_parent_chunk(m[2]) # get_parent_chunk(m[1])
       /\ Rounds = 1 => get_parent_chunk(m[2]) \notin FormedIn(CoalesceOf.st)

\* a donor with live children, and enough free small chunks: the pass
\* migrates every live child of the donor and forms one large chunk
C29_Witness ==
  /\ fsi.small_free_list_sz >= S
  /\ \E L \in Donors :
       /\ large[L].small_chunks_allocated = 2
       /\ FormedIn(CoalesceOf.st) = {L}
       /\ Cardinality(MovesOf(CoalesceOf.st)) = 2
  /\ CoalesceOf.ret = "LARGE_CHUNK_FORMED"

\* the observations of the calls of unbreak_large_chunk that went on to
\* unbreak, in every public operation and in a coalesce pass on the
\* current state
Unbroken ==
  UNION {{e \in s.evs : e[1] = "unbroken"} :
           s \in Outcomes \cup {CoalesceOf.st}}

\* the children were FREE or COALESCE_PENDING before
ChildrenIdle(e) ==
  \A i \in 0 .. (S - 1) :
    \/ e[4][Child(e[2], i)].flags = {"INITIALIZED", "FREE"}
    \/ e[4][Child(e[2], i)].flags = {"INITIALIZED", "COALESCE_PENDING"}

\* afterwards no child is on the small free list, and the large chunk is
\* INITIALIZED|FREE on the large free list
Rejoined(e) ==
  /\ \A i \in 0 .. (S - 1) :
       Child(e[2], i)
         \notin Range(WalkSmall([small |-> e[5]], e[7].small_free_list, Fuel))
  /\ e[6][e[2]].flags = {"INITIALIZED", "FREE"}
  /\ e[2] \in Range(WalkLarge([large |-> e[6]], e[7].large_free_list, Fuel))

\* C30: when unbreak_large_chunk proceeds, every child is FREE or
\* COALESCE_PENDING beforehand; afterwards the flags of every child are
\* cleared, of the formerly FREE and of the formerly COALESCE_PENDING ones,
\* no child is on the small free list, and the large chunk is
\* INITIALIZED|FREE on the large free list
C30_UnbreakClearsChildren ==
  \A e \in Unbroken :
    /\ ChildrenIdle(e)
    /\ \A i \in 0 .. (S - 1) : e[5][Child(e[2], i)].flags = {}
    /\ Rejoined(e)

\* the same, with the flags the code leaves: cleared on the formerly FREE
\* children, INITIALIZED|COALESCE_PENDING as before on the others
C30_UnbreakClearsFreeChildren ==
  \A e \in Unbroken :
    /\ ChildrenIdle(e)
    /\ \A i \in 0 .. (S - 1) :
         e[5][Child(e[2], i)].flags
           = IF "FREE" \in e[4][Child(e[2], i)].flags THEN {}
             ELSE {"INITIALIZED", "COALESCE_PENDING"}
    /\ Rejoined(e)

\* a mandatory unbreak of a donor with a COALESCE_PENDING child
C30_PendingChildren ==
  \E e \in Unbroken :
    /\ e[3]
    /\ \E i \in 0 .. (S - 1) : "COALESCE_PENDING" \in e[4][Child(e[2], i)].flags
    /\ Rejoined(e)

\* the used small chunks
UsedSmall ==
  {Child(L, i) : L \in BrokenChunks, i \in 0 .. (S - 1)}
  \cap {a \in Addrs : "USED" \in small[a].flags}

\* the free of the used small chunk a as item_free does it: the flags down
\* to INITIALIZED, then free_list_push
PushOf(a, try_merge) ==
  free_list_push_small([St EXCEPT !.small[a].flags = {"INITIALIZED"}],
                       a, try_merge)

\* the push of a unbroke the parent of a
Unbroke(a, try_merge) ==
  /\ "BROKEN" \notin PushOf(a, try_merge).large[get_parent_chunk(a)].flags
  /\ <<"unbreak", get_parent_chunk(a)>> \in PushOf(a, try_merge).evs

\* C31: a small-chunk free with try_merge unbreaks the parent if and only
\* if the parent then has zero allocated small chunks; after every public
\* operation no broken large chunk has small_chunks_allocated == 0, and
\* broken_chunk_histogram[0] == 0
C31_NoEmptyBrokenChunk ==
  /\ \A a \in UsedSmall :
       /\ Unbroke(a, TRUE)
            <=> (large[get_parent_chunk(a)].small_chunks_allocated = 1)
       /\ ~Unbroke(a, FALSE)
       /\ "unbreak_child_flags" \notin PushOf(a, TRUE).fail
  /\ \A L \in BrokenChunks : large[L].small_chunks_allocated > 0
  /\ fsi.stats.broken_chunk_histogram[0] = 0

\* two broken large chunks, one with a single used small chunk, whose free
\* unbreaks it, and one with two, where the free of one unbreaks nothing
C31_Witness ==
  \E a \in UsedSmall, b \in UsedSmall :
    /\ large[get_parent_chunk(a)].small_chunks_allocated = 1
    /\ Unbroke(a, TRUE)
    /\ large[get_parent_chunk(b)].small_chunks_allocated = 2
    /\ ~Unbroke(b, TRUE)

\* the linked small items nobody holds: their unlink frees them
SmallIdle ==
  {it \in Linked : title[it].refcount = 0 /\ ~is_item_large_chunk(St, it)}

\* the unlink of `it`, which ends with item_free(it), unbroke the large
\* chunk of the title; the title is the last chunk item_free pushes, so
\* that chunk has an allocated child until the title's push
TitleParentUnbroken(it) ==
  /\ <<"unbreak", get_parent_chunk(it)>> \in UnlinkOnce(it, "NORMAL").evs
  /\ "BROKEN" \notin UnlinkOnce(it, "NORMAL").large[get_parent_chunk(it)].flags

\* the used chunks of the title's large chunk all belong to the item
AloneInParent(it) ==
  {Child(get_parent_chunk(it), i) : i \in UsedChildren(get_parent_chunk(it))}
    \subseteq ChunksOf(St, it)

\* C32 as stated: in item_free of a small-class item the title's free
\* never unbreaks the title's parent large chunk
C32_TitleFreeNeverUnbreaks ==
  \A it \in SmallIdle : ~TitleParentUnbroken(it)

\* C32, amended: item_free pushes the title chunk of a small-class item
\* with try_merge like its body chunks, and the title's free unbreaks the
\* title's parent large chunk exactly when the item held every allocated
\* small chunk of that parent
C32_TitleFreeMayUnbreak ==
  \A it \in SmallIdle :
    /\ TitleParentUnbroken(it) <=> AloneInParent(it)
    /\ UnlinkOnce(it, "NORMAL").fail = {}
    /\ FreedIn(UnlinkOnce(it, "NORMAL"), it)

\* two small items that nobody holds, one alone in the large chunk of its
\* title, whose free unbreaks that chunk, and one that shares the large
\* chunk of its title, whose free leaves that chunk broken
C32_Witness ==
  \E it \in SmallIdle, other \in SmallIdle :
    /\ AloneInParent(it) /\ TitleParentUnbroken(it)
    /\ ~AloneInParent(other) /\ ~TitleParentUnbroken(other)

\* the large chunk the next pop of the large free list returns, broken
BreakOf ==
  break_large_chunk(free_list_pop_large(St).st, free_list_pop_large(St).ret)

\* the requests of the small class for a single chunk, and their alloc
OneChunkRequests ==
  {q \in ShortRequests : chunks_needed(Len(q[1]), q[2]) = 1}
AllocShortOf(q) == do_item_alloc(St, q[1], Len(q[1]), 0, q[2])
BreaksIn(s) == {e \in s.evs : e[1] = "break"}

\* break_large_chunk on the head of the large free list does as the
\* contract says
BreakAsStated ==
  LET L == fsi.large_free_list
  IN /\ large[L].flags = {"INITIALIZED", "FREE"}
     /\ free_list_pop_large(St).ret = L
     /\ free_list_pop_large(St).st.large[L].flags = {"INITIALIZED"}
     /\ BreakOf.fail = {}
     /\ BreakOf.large[L].flags = {"INITIALIZED", "USED", "BROKEN"}
     /\ BreakOf.large[L].small_chunks_allocated = 0
     /\ WalkSmall(BreakOf, BreakOf.fsi.small_free_list, Fuel)
          = [i \in 1 .. S |-> Child(L, i - 1)] \o SmallFree
     /\ \A i \in 0 .. (S - 1) :
          BreakOf.small[Child(L, i)].flags = {"INITIALIZED", "FREE"}
     /\ BreakOf.fsi.small_free_list_sz = fsi.small_free_list_sz + S
     /\ BreakOf.fsi.large_free_list_sz = fsi.large_free_list_sz - 1
     /\ BreakOf.fsi.stats.break_events = fsi.stats.break_events + 1
     /\ BreakOf.fsi.stats.large_broken_chunks
          = fsi.stats.large_broken_chunks + 1

\* the alloc of q breaks one large chunk, the head of the large free list,
\* and takes child 0 of it; the region does not grow and nothing is evicted
BreakOnDemand(q) ==
  /\ AllocShortOf(q).ret = Child(fsi.large_free_list, 0)
  /\ BreaksIn(AllocShortOf(q).st) = {<<"break", fsi.large_free_list>>}
  /\ AllocShortOf(q).st.fsi.stats.break_events = fsi.stats.break_events + 1
  /\ AllocShortOf(q).st.fsi.small_free_list_sz = S - 1
  /\ AllocShortOf(q).st.fsi.large_free_list_sz = fsi.large_free_list_sz - 1
  /\ AllocShortOf(q).st.fsi.uninitialized_start = fsi.uninitialized_start
  /\ AllocShortOf(q).st.fsi.unused_memory = fsi.unused_memory
  /\ AllocShortOf(q).st.stats.evictions = stats.evictions
  /\ AllocShortOf(q).st.stats.curr_items = stats.curr_items
  /\ \A e \in AllocShortOf(q).st.evs : e[1] \notin {"evict_call", "evict"}

\* C33: break_large_chunk is applied only to a large chunk whose flags are
\* exactly INITIALIZED; it sets USED|BROKEN, puts the
\* SMALL_CHUNKS_PER_LARGE_CHUNK children on the small free list with child
\* 0 at the head, leaves small_chunks_allocated == 0 and adds 1 to
\* break_events and large_broken_chunks; a one-chunk small alloc with an
\* empty small free list and a non-empty large free list breaks exactly
\* one large chunk, grows nothing, evicts nothing and ends with
\* small_free_list_sz == SMALL_CHUNKS_PER_LARGE_CHUNK - 1
C33_BreakOnDemand ==
  /\ \A q \in ShortRequests \cup {<<r[1], r[3]>> : r \in Requests} :
       "break_flags" \notin AllocShortOf(q).st.fail
  /\ fsi.large_free_list_sz > 0 => BreakAsStated
  /\ fsi.small_free_list_sz = 0 /\ fsi.large_free_list_sz > 0 =>
       \A q \in OneChunkRequests : BreakOnDemand(q)

\* a cache with items, no free small chunk and a free large chunk, on which
\* a one-chunk request breaks that large chunk
C33_Witness ==
  \E q \in OneChunkRequests :
    /\ fsi.small_free_list_sz = 0 /\ fsi.large_free_list_sz > 0
    /\ fsi.stats.break_events > 0
    /\ Linked # {}
    /\ BreakOnDemand(q)

\* the calls of flat_storage_lru_evict: a class and a number of chunks
EvictCalls == {"SMALL", "LARGE"} \X (1 .. 2)
EvictOf(c) == flat_storage_lru_evict(St, c[1], c[2])

\* the capacity condition of the class, on the free-list sizes
Enough(chunk_type, nchunks, large_free, small_free) ==
  IF chunk_type = "SMALL" THEN large_free * S + small_free >= nchunks
  ELSE large_free >= nchunks
EnoughIn(s, c) ==
  Enough(c[1], c[2], s.fsi.large_free_list_sz, s.fsi.small_free_list_sz)

\* the states in which the call c took an item off the LRU
MomentsOf(c) == {e \in EvictOf(c).st.evs : e[1] = "evict_moment"}

\* C34: flat_storage_lru_evict evicts no more than necessary: called
\* without the capacity of its class, it takes an item only in a state
\* where the condition of the class (small: large_free *
\* SMALL_CHUNKS_PER_LARGE_CHUNK + small_free >= nchunks; large: large_free
\* >= nchunks, after the coalesce pass when the combined capacity
\* suffices) does not hold; it returns true only if the condition holds on
\* return, and false only when get_lru_item finds no candidate; the
\* evictions of do_item_alloc are all made without the capacity
C34_EvictsNoMoreThanNecessary ==
  /\ \A c \in EvictCalls :
       /\ EvictOf(c).st.fail = {}
       /\ EvictOf(c).ret => EnoughIn(EvictOf(c).st, c)
       /\ ~EvictOf(c).ret => get_lru_item(EvictOf(c).st) = NULL
       /\ ~EnoughIn(St, c) =>
            \A e \in MomentsOf(c) : ~Enough(e[2], e[3], e[5], e[6])
       /\ Cardinality(MomentsOf(c))
            = stats.curr_items - EvictOf(c).st.stats.curr_items
       /\ MomentsOf(c) = {} => ~EvictOf(c).ret /\ SameEngine(St, EvictOf(c).st)
  /\ \A q \in Requests : \A e \in EvictMoments(q) :
       ~Enough(e[2], e[3], e[5], e[6])

\* a call for a large chunk on a cache without one, which takes two items
\* off the LRU and returns true, and a call which finds nothing to take
\* while items are linked and returns false
C34_Witness ==
  /\ \E c \in EvictCalls :
       /\ c[1] = "LARGE" /\ ~EnoughIn(St, c)
       /\ EvictOf(c).ret
       /\ Cardinality(MomentsOf(c)) = 2
  /\ \E c \in EvictCalls :
       /\ ~EvictOf(c).ret /\ Linked # {}

\* the positions, counted from the LRU tail, of the items with refcount 0
\* among the LRU_SEARCH_DEPTH nearest the tail
IdleInWindow ==
  {i \in 1 .. Min(LRU_SEARCH_DEPTH, Len(LruBackward)) :
     title[LruBackward[i]].refcount = 0}

\* the linked items with refcount 0 of state s beyond the window
IdleBeyondWindow(s) ==
  {it \in LinkedIn(s) \ LruWindow(s) : s.title[it].refcount = 0}

StalePairs ==
  {p \in ReplacePairs : GetOf(title[p[1]].key).ret = p[1]}

\* after the first caller's get, another caller unlinks A and links B, or
\* replaces A by B
DisplacedByUnlink(p) ==
  do_item_link(
    do_item_unlink(GetOf(title[p[1]].key).st, p[1], "NORMAL", title[p[1]].key),
    p[2], title[p[1]].key)
DisplacedByReplace(p) ==
  do_item_replace(GetOf(title[p[1]].key).st, p[1], p[2], title[p[1]].key)

\* in state s, where B has taken the place of A, the unlink of A under the
\* key is a no-op, and B is linked, in the LRU and in the table; get of the
\* key returns B unless the flush barrier turns B away
StaleUnlinkIdle(s, p) ==
  \A f \in UnlinkFlags :
    LET t == do_item_unlink(s, p[1], f, title[p[1]].key)
    IN /\ t.fail = {}
       /\ SameEngine(s, t)
       /\ IsItem(t, p[1])
       /\ "LINKED" \in t.title[p[2]].it_flags
       /\ p[2] \in Range(WalkNext(t, t.fsi.lru_head, Fuel))
       /\ assoc_find(t, title[p[1]].key) = p[2]
       /\ ~TurnedAway(t, p[2]) =>
            do_item_get_notedeleted(t, title[p[1]].key).ret = p[2]

\* C36: a stale unlink cannot remove somebody else's item: when a caller
\* got item A for key k, and before its unlink(A, k) another caller
\* unlinked or replaced A and linked a different item B under k, the
\* unlink(A, k) is a no-op and B stays linked, in the LRU and findable
C36_StaleUnlinkIsNoOp ==
  \A p \in StalePairs :
    /\ StaleUnlinkIdle(DisplacedByUnlink(p), p)
    /\ StaleUnlinkIdle(DisplacedByReplace(p), p)

\* a pair A, B of one key, A the only reference of the caller: after the
\* replace by B the unlink of A changes nothing and get returns B
C36_Witness ==
  \E p \in StalePairs :
    /\ title[p[1]].refcount = 0
    /\ StaleUnlinkIdle(DisplacedByReplace(p), p)
    /\ ~TurnedAway(DisplacedByReplace(p), p[2])
    /\ do_item_get_notedeleted(
         do_item_unlink(DisplacedByReplace(p), p[1], "NORMAL",
                        title[p[1]].key),
         title[p[1]].key).ret = p[2]

\* every request: the key, the expiry time and the length of the value
AllRequests == Requests \cup {<<q[1], 0, q[2]>> : q \in ShortRequests}

\* the passes of the acquisition loop in the alloc of q
PassesOf(q) == {e \in AllocOf(q).st.evs : e[1] = "alloc_pass"}

\* between the loop top a and the later moment with the counters b the
\* region grew, a large chunk was broken, a large chunk was formed, or an
\* item left the LRU
Progressed(a, unused, items, breaks, unbreaks) ==
  \/ unused < a[4]
  \/ breaks > a[6]
  \/ unbreaks > a[7]
  \/ items < a[5]

\* the number of passes a single alloc can make: a growth, a break or an
\* eviction each
PassBound == 2 * NLarge + NLarge * S

\* C37: do_item_alloc always terminates, returning an item or NULL; each
\* pass of its acquisition loop commits more of the region, breaks a large
\* chunk, forms a large chunk by coalescing, evicts at least one item, or
\* returns NULL; the progress assertions at the loop top hold
C37_AllocTerminates ==
  \A q \in AllRequests :
    /\ AllocOf(q).ret \in Items(AllocOf(q).st) \cup {NULL}
    /\ AllocOf(q).st.fail = {}
    /\ {e[3] : e \in PassesOf(q)} = 0 .. (Cardinality(PassesOf(q)) - 1)
    /\ Cardinality(PassesOf(q)) <= PassBound
    /\ \A a \in PassesOf(q), b \in PassesOf(q) :
         b[3] = a[3] + 1 =>
           /\ Progressed(a, b[4], b[5], b[6], b[7])
           /\ <<a[8], a[9]>> # <<b[8], b[9]>>
    /\ \A a \in PassesOf(q) :
         a[3] = Cardinality(PassesOf(q)) - 1 /\ AllocOf(q).ret # NULL =>
           Progressed(a, AllocOf(q).st.fsi.unused_memory,
                      AllocOf(q).st.stats.curr_items,
                      AllocOf(q).st.fsi.stats.break_events,
                      AllocOf(q).st.fsi.stats.unbreak_events)

\* an alloc that takes two passes of the loop, evicts an item in one of
\* them and returns an item, and an alloc on a cache with linked items that
\* gives up after a pass and returns NULL
C37_Witness ==
  /\ \E q \in AllRequests :
       /\ Cardinality(PassesOf(q)) = 2
       /\ AllocOf(q).ret # NULL
       /\ AllocOf(q).st.stats.curr_items < stats.curr_items
  /\ \E q \in AllRequests :
       PassesOf(q) # {} /\ AllocOf(q).ret = NULL /\ Linked # {}

\* the time fields along the LRU of state s, from lru_head to lru_tail
LruTimes(s) ==
  [i \in 1 .. Len(WalkNext(s, s.fsi.lru_head, Fuel)) |->
     s.title[WalkNext(s, s.fsi.lru_head, Fuel)[i]].time]

NonIncreasing(q) == \A i \in 1 .. (Len(q) - 1) : q[i] >= q[i + 1]

FlushOf == do_item_flush_expired(St)

\* the linked items the flush barrier covers, and the other linked items
Flushable == {it \in Linked : title[it].time >= settings.oldest_live}
Spared == Linked \ Flushable

RECURSIVE Without(_, _)
\* the sequence q without the elements of the set X
Without(q, X) ==
  IF q = <<>> THEN <<>>
  ELSE IF Head(q) \in X THEN Without(Tail(q), X)
  ELSE <<Head(q)>> \o Without(Tail(q), X)

\* C39: do_item_flush_expired is a no-op when settings.oldest_live == 0;
\* otherwise, when it returns, no linked item has time >= oldest_live,
\* every item it removed was unlinked as an expiration (evictions
\* unchanged), the items with time < oldest_live are untouched and keep
\* their relative LRU order, and the removed items with refcount > 0 are
\* unlinked but not freed
C39_FlushExpired ==
  /\ FlushOf.fail = {}
  /\ settings.oldest_live = 0 => SameEngine(St, FlushOf) /\ FlushOf.evs = {}
  /\ settings.oldest_live # 0 =>
       /\ \A it \in LinkedIn(FlushOf) :
            FlushOf.title[it].time < settings.oldest_live
       /\ LinkedIn(FlushOf) = Spared
       /\ FlushOf.stats.evictions = stats.evictions
       /\ FlushOf.stats.curr_items = stats.curr_items - Cardinality(Flushable)
       /\ \A e \in FlushOf.evs :
            e[1] \in {"expire", "free", "unbreak", "unbroken"}
       /\ (<<"expire">> \in FlushOf.evs) <=> (Flushable # {})
       /\ WalkNext(FlushOf, FlushOf.fsi.lru_head, Fuel)
            = Without(LruForward, Flushable)
       /\ \A it \in Spared :
            StaysPut(FlushOf, it) /\ FlushOf.title[it].time = title[it].time
       /\ \A it \in Flushable :
            IF title[it].refcount > 0
            THEN /\ IsItem(FlushOf, it)
                 /\ ChunkChain(FlushOf, it) = ChunkChain(St, it)
                 /\ FlushOf.title[it].refcount = title[it].refcount
                 /\ "LINKED" \notin FlushOf.title[it].it_flags
            ELSE FreedIn(FlushOf, it)

\* a flush barrier that covers a linked item somebody holds and spares an
\* older linked item
C39_Witness ==
  /\ settings.oldest_live # 0
  /\ \E it \in Flushable : title[it].refcount > 0 /\ IsItem(FlushOf, it)
  /\ Spared # {}
  /\ LinkedIn(FlushOf) = Spared

====
